---- MODULE Spec2Model ----
(***************************************************************************)
(* Model of Bot.py (Elevate Platform bot): the per-user session store      *)
(* (UserStateManager), the dialog router (start, button_handler,           *)
(* handle_user_input and the handlers they dispatch to), the booking /     *)
(* report-request / AI-session tables, and the commit handler              *)
(* handle_payment_confirmed.                                               *)
(*                                                                         *)
(* A callback token is the sequence of its '_'-separated parts, so that    *)
(* data.startswith('payment_') and data.split('_')[1] are computed as the  *)
(* code computes them.  A text message is the sequence of its characters,  *)
(* so that "'@' in user_message" is computed, not assumed.                 *)
(*                                                                         *)
(* A session payload (the 'data' dict) is a record over all keys the code  *)
(* ever stores; a key that is absent (dict.get gives None) holds the None  *)
(* value of its type.  set_state with a dict literal therefore resets      *)
(* every key the literal does not mention.                                 *)
(***************************************************************************)
EXTENDS Integers, Sequences, FiniteSets, TLC

\* ------------------------------------------------------------------------
\* Program constants
\* ------------------------------------------------------------------------
MAX_AI_QUESTIONS == 5

CONVERSATION_WINDOW == 10

TTL_HOURS == 1

AVAILABLE_TIMES == <<"10:00", "11:00", "14:00", "15:00", "16:00">>

\* ------------------------------------------------------------------------
\* Bounds of the model
\* ------------------------------------------------------------------------
MaxClock == 2

MaxBookings == 2

MaxReports == 2

MaxAiSessions == 1

MaxAiSessionsWide == 2
MaxStoreTurns == 2
MaxTurns == 12

MinDays == 27

MaxDays == 40

MaxDaysAhead == 15

\* ------------------------------------------------------------------------
\* Input universes
\* ------------------------------------------------------------------------
Users == {101, 202}

None == "None"

NoneText == <<"None">>

TxtName == <<"A", "n", "n">>

TxtEmail == <<"a", "@", "b", ".", "c">>

TxtConvert == <<"5", " ", "u", "s", "d", " ", "E", "U", "R">>
TxtConvertUnknown == <<"5", ".", "0", " ", " ", "X", "Y", "Z", " ", "e", "u", "r">>
TxtConvertUnknownTarget == <<"7", " ", "G", "B", "P", " ", "i", "q", "d">>
TxtNan == <<"n", "a", "n">>
TxtZero == <<"0">>
TxtNoDot == <<"a", "@", "b">>

NoAmount == [whole |-> -1, frac |-> <<>>]

\* ------------------------------------------------------------------------
\* Session payload
\* ------------------------------------------------------------------------
EmptyData ==
    [service_type |-> None, country |-> None, language |-> None,
     order_type |-> None, name |-> NoneText, email |-> NoneText,
     payment_method |-> None, selected_date |-> None, selected_time |-> None,
     conversation |-> <<>>,
     shares_buffer |-> FALSE,   \* 'conversation' is the buffer's own list object
     amount |-> NoAmount, from_currency |-> None, cv_type |-> None,
     questions_asked |-> -1]

\* dict.get(key, default), applied to the value v held under the key
GetOr(v, default) == IF v = None THEN default ELSE v

NoEntry == [present |-> FALSE, state |-> None, data |-> EmptyData, timestamp |-> 0]

VARIABLES
    user_states,         \* UserStateManager.user_states
    user_conversations,  \* UserStateManager.user_conversations
    user_languages,      \* UserStateManager.user_languages
    now,                 \* datetime.now(), in hours
    bookings,            \* table bookings
    report_requests,     \* table report_requests
    ai_sessions,         \* table ai_sessions
    last,                \* what the last handled event did (replies, emails, calls)
    tasks                \* handle_payment_confirmed coroutines in flight

vars == <<user_states, user_conversations, user_languages, now,
          bookings, report_requests, ai_sessions, last, tasks>>

\* ------------------------------------------------------------------------
\* UserStateManager
\* ------------------------------------------------------------------------
\* a set_state that keeps every field of the old payload the new one lacks
set_state_merging(us, u, state, data) == [us EXCEPT ![u] = [present |-> TRUE, state |-> state, data |-> [f \in DOMAIN data |-> IF data[f] = EmptyData[f] THEN us[u].data[f] ELSE data[f]], timestamp |-> now]]

\* set_state: the new entry replaces the old one completely
set_state(us, u, state, data) ==
    [us EXCEPT ![u] = [present |-> TRUE, state |-> state, data |-> data,
                       timestamp |-> now]]

\* an expiry test that already fires at exactly one hour
Expired_at_one_hour(us, u) == us[u].present /\ now - us[u].timestamp >= TTL_HOURS

\* get_state: TRUE iff the stored entry is older than one hour
Expired(us, u) == us[u].present /\ now - us[u].timestamp > TTL_HOURS

\* a read that hands out the entry whatever its age
get_state_unexpiring(us, u) == IF us[u].present THEN us[u] ELSE NoEntry

\* get_state: the entry returned (NoEntry stands for None)
get_state(us, u) == IF us[u].present /\ ~Expired(us, u) THEN us[u] ELSE NoEntry

\* get_state: the store after the read (an expired entry is deleted)
after_get_state(us, u) == IF Expired(us, u) THEN [us EXCEPT ![u] = NoEntry] ELSE us

\* a clear_state that leaves the state entry in place
clear_state_states_kept(us, u) == us

\* a clear that empties the whole dict
clear_state_states_everyone(us, u) == [v \in Users |-> NoEntry]

\* clear_state: state entry and conversation buffer are both deleted
clear_state_states(us, u) == [us EXCEPT ![u] = NoEntry]

\* a clear that forgets the user's language as well
clear_state_languages_dropped(ul, u) == [ul EXCEPT ![u] = "unset"]

\* clear_state deletes from user_states and user_conversations only
clear_state_languages(ul, u) == ul

clear_state_conversations(uc, u) == [uc EXCEPT ![u] = <<>>]

\* a slice that keeps the first n elements instead
FirstN(s, n) == IF Len(s) > n THEN SubSeq(s, 1, n) ELSE s

LastN(s, n) == IF Len(s) > n THEN SubSeq(s, Len(s) - n + 1, Len(s)) ELSE s

\* a window that trims as soon as it is full
add_conversation_message_eager(uc, u, role, content) == [uc EXCEPT ![u] = LastN(Append(uc[u], [role |-> role, content |-> content]), CONVERSATION_WINDOW - 1)]

add_conversation_message(uc, u, role, content) ==
    LET appended == Append(uc[u], [role |-> role, content |-> content])
    IN  [uc EXCEPT ![u] = IF Len(appended) > CONVERSATION_WINDOW
                          THEN LastN(appended, CONVERSATION_WINDOW)
                          ELSE appended]

get_conversation(uc, u) == uc[u]

RECURSIVE CountUser(_)
CountUser(conv) ==
    IF conv = <<>> THEN 0
    ELSE (IF Head(conv).role = "user" THEN 1 ELSE 0) + CountUser(Tail(conv))

get_question_count(uc, u) == CountUser(get_conversation(uc, u))

get_user_language(ul, u) == IF ul[u] = "unset" THEN "en" ELSE ul[u]

\* ------------------------------------------------------------------------
\* Persistence gateway.  ok is the outcome of get_db_connection() and of the
\* statement: FALSE stands for "connection refused or statement raised".
\* ------------------------------------------------------------------------
Indices(t) == 1..Len(t)

\* SELECT COUNT(*) ... WHERE booking_date = d AND booking_time = t AND status != 'cancelled'
Taken(bk, date, time) ==
    \E i \in Indices(bk) : /\ bk[i].booking_date = date
                           /\ bk[i].booking_time = time
                           /\ bk[i].status # "cancelled"

\* a check that answers "free" when the store cannot be asked
check_slot_available_failopen(bk, date, time, ok) ==
    IF ~ok THEN TRUE ELSE ~Taken(bk, date, time)

\* a check that answers from the table even though the store did not answer
check_slot_available_stale(bk, date, time, ok) == ~Taken(bk, date, time)

check_slot_available(bk, date, time, ok) ==
    IF ~ok THEN FALSE ELSE ~Taken(bk, date, time)

\* INSERT INTO bookings: name, email and payment_method are NOT NULL columns,
\* so a None there makes the statement raise; save_booking then returns None
InsertAccepted(ok, name, email, payment_method) ==
    ok /\ name # NoneText /\ email # NoneText /\ payment_method # None

\* save_booking: the table after the call (unchanged on failure)
save_booking(bk, ok, user_id, name, email, service_type, country, booking_date, booking_time, payment_method) ==
    IF ~InsertAccepted(ok, name, email, payment_method) THEN bk
    ELSE Append(bk, [user_id |-> user_id, name |-> name, email |-> email,
                     service_type |-> service_type, country |-> country,
                     booking_date |-> booking_date, booking_time |-> booking_time,
                     payment_method |-> payment_method, status |-> "pending"])

\* save_report_request: the table after the call (unchanged on failure)
save_report_request(rr, ok, user_id, name, email, country, service_type, summary, payment_method) ==
    IF ~InsertAccepted(ok, name, email, payment_method) THEN rr
    ELSE Append(rr, [user_id |-> user_id, name |-> name, email |-> email,
                     country |-> country, service_type |-> service_type,
                     conversation_summary |-> summary,
                     payment_method |-> payment_method, status |-> "pending"])

\* rows of user_id with completed_at IS NULL
OpenSessions(as, u) == {i \in Indices(as) : as[i].user_id = u /\ ~as[i].completed}

Max(S) == CHOOSE m \in S : \A x \in S : x <= m

\* ORDER BY started_at DESC LIMIT 1: rows are appended in started_at order
LatestOpen(as, u) == Max(OpenSessions(as, u))

create_ai_session(as, ok, u, language, country, service_type) ==
    IF ~ok THEN as
    ELSE Append(as, [user_id |-> u, language |-> language, country |-> country,
                     service_type |-> service_type, question_count |-> 0,
                     completed |-> FALSE, report_requested |-> FALSE,
                     report_email |-> NoneText])

update_ai_session(as, ok, u, question_count) ==
    IF ~ok \/ OpenSessions(as, u) = {} THEN as
    ELSE [as EXCEPT ![LatestOpen(as, u)].question_count = question_count]

mark_session_completed(as, ok, u) ==
    IF ~ok \/ OpenSessions(as, u) = {} THEN as
    ELSE [as EXCEPT ![LatestOpen(as, u)].completed = TRUE]

mark_report_requested(as, ok, u, report_email) ==
    IF ~ok \/ OpenSessions(as, u) = {} THEN as
    ELSE [as EXCEPT ![LatestOpen(as, u)].report_requested = TRUE,
                    ![LatestOpen(as, u)].report_email = report_email]

\* ------------------------------------------------------------------------
\* What a handled event did, as seen from outside: the reply shown, the
\* emails attempted (in order, with the transport's answer), whether the
\* completion service was called, the tables written (the append-only
\* activity log apart) and the slot keyboard rendered.
\* ------------------------------------------------------------------------
Obs(u, handler, reply, emails, completion, writes) ==
    [user |-> u, handler |-> handler, reply |-> reply, emails |-> emails,
     completion |-> completion, writes |-> writes, keyboard |-> <<>>,
     log |-> <<>>, rate_lookup |-> FALSE]

Mail(type, to, ok) == [type |-> type, to |-> to, ok |-> ok]

\* ------------------------------------------------------------------------
\* button_handler: the if / elif chain over the callback token, in order
\* ------------------------------------------------------------------------
StartsWith(tok, prefix) ==
    /\ Len(tok) > Len(prefix)
    /\ SubSeq(tok, 1, Len(prefix)) = prefix

Route(tok) ==
    IF StartsWith(tok, <<"lang">>) THEN "handle_language_selection"
    ELSE IF StartsWith(tok, <<"service">>) THEN "handle_service_selection"
    ELSE IF StartsWith(tok, <<"country">>) THEN "handle_country_selection"
    ELSE IF tok = <<"back", "services">> THEN "show_services_menu"
    ELSE IF tok = <<"travel", "essentials">> THEN "show_travel_essentials"
    ELSE IF tok = <<"cv", "cover">> THEN "show_cv_menu"
    ELSE IF StartsWith(tok, <<"curr", "from">>) THEN "curr_from"
    ELSE IF StartsWith(tok, <<"curr", "to">>) THEN "curr_to"
    ELSE IF StartsWith(tok, <<"curr", "all">>) THEN "show_all_currencies_list"
    ELSE IF StartsWith(tok, <<"ess">>) THEN
        (IF SubSeq(tok, 2, Len(tok)) = <<"currency">>
         THEN "show_currency_converter_start" ELSE "handle_student_essential")
    ELSE IF tok = <<"statistics">> THEN "show_statistics"
    ELSE IF tok = <<"help">> THEN "show_help_info"
    ELSE IF tok = <<"contact">> THEN "show_contact_info"
    ELSE IF tok = <<"change", "lang">> THEN "change_lang"
    ELSE IF tok = <<"ai", "start">> THEN "handle_ai_selection"
    ELSE IF tok = <<"stop", "ai", "get", "report">> THEN "handle_stop_ai_get_report"
    ELSE IF tok = <<"detailed", "report">> THEN "handle_detailed_report"
    ELSE IF tok = <<"consultation">> THEN "handle_consultation"
    ELSE IF StartsWith(tok, <<"payment">>) THEN "handle_payment_selection"
    ELSE IF StartsWith(tok, <<"date">>) THEN "handle_date_selection"
    ELSE IF StartsWith(tok, <<"time">>) THEN "handle_time_selection"
    ELSE IF tok = <<"back", "to", "calendar">> THEN "handle_consultation"
    ELSE IF tok = <<"payment", "confirmed">> THEN "handle_payment_confirmed"
    ELSE IF StartsWith(tok, <<"booked">>) THEN "booked"
    ELSE IF StartsWith(tok, <<"cv", "type">>) THEN "handle_cv_type_selection"
    ELSE "unknown"

\* ------------------------------------------------------------------------
\* Text messages: sequences of characters
\* ------------------------------------------------------------------------
Contains(txt, c) == \E i \in 1..Len(txt) : txt[i] = c

Digits == {"0", "1", "2", "3", "4", "5", "6", "7", "8", "9"}

DigitValue(c) ==
    CASE c = "0" -> 0 [] c = "1" -> 1 [] c = "2" -> 2 [] c = "3" -> 3
      [] c = "4" -> 4 [] c = "5" -> 5 [] c = "6" -> 6 [] c = "7" -> 7
      [] c = "8" -> 8 [] c = "9" -> 9

UpperLetters ==
    {"A", "B", "C", "D", "E", "F", "G", "H", "I", "J", "K", "L", "M",
     "N", "O", "P", "Q", "R", "S", "T", "U", "V", "W", "X", "Y", "Z"}

\* str.upper() on one character
UpperChar(c) ==
    CASE c = "a" -> "A" [] c = "b" -> "B" [] c = "c" -> "C" [] c = "d" -> "D"
      [] c = "e" -> "E" [] c = "f" -> "F" [] c = "g" -> "G" [] c = "h" -> "H"
      [] c = "i" -> "I" [] c = "j" -> "J" [] c = "k" -> "K" [] c = "l" -> "L"
      [] c = "m" -> "M" [] c = "n" -> "N" [] c = "o" -> "O" [] c = "p" -> "P"
      [] c = "q" -> "Q" [] c = "r" -> "R" [] c = "s" -> "S" [] c = "t" -> "T"
      [] c = "u" -> "U" [] c = "v" -> "V" [] c = "w" -> "W" [] c = "x" -> "X"
      [] c = "y" -> "Y" [] c = "z" -> "Z" [] OTHER -> c

\* a text left in the case it was typed in
UpperSkipped(txt) == txt

Upper(txt) == [i \in 1..Len(txt) |-> UpperChar(txt[i])]

IsSpace(c) == c = " "

\* str.strip()
Strip(txt) ==
    LET nonspace == {i \in 1..Len(txt) : ~IsSpace(txt[i])}
    IN  IF nonspace = {} THEN <<>>
        ELSE SubSeq(txt, CHOOSE i \in nonspace : \A j \in nonspace : i <= j,
                         CHOOSE i \in nonspace : \A j \in nonspace : j <= i)

\* str.replace(',', '')
RECURSIVE RemoveCommas(_)
RemoveCommas(txt) ==
    IF txt = <<>> THEN <<>>
    ELSE IF Head(txt) = "," THEN RemoveCommas(Tail(txt))
    ELSE <<Head(txt)>> \o RemoveCommas(Tail(txt))

\* \d+\.?\d*
IsNumber(w) ==
    /\ Len(w) >= 1
    /\ w[1] \in Digits
    /\ \A i \in 1..Len(w) : w[i] \in Digits \cup {"."}
    /\ Cardinality({i \in 1..Len(w) : w[i] = "."}) <= 1

RECURSIVE DigitsValue(_)
DigitsValue(w) ==
    IF w = <<>> THEN 0
    ELSE DigitsValue(SubSeq(w, 1, Len(w) - 1)) * 10 + DigitValue(w[Len(w)])

RECURSIVE StripTrailingZeros(_)
StripTrailingZeros(w) ==
    IF w # <<>> /\ w[Len(w)] = "0" THEN StripTrailingZeros(SubSeq(w, 1, Len(w) - 1))
    ELSE w

\* float(w) for w matching \d*\.?\d*: whole part and fraction digits
NumberValue(w) ==
    LET dots == {i \in 1..Len(w) : w[i] = "."}
        dot  == IF dots = {} THEN Len(w) + 1 ELSE CHOOSE i \in dots : TRUE
    IN  [whole |-> DigitsValue(SubSeq(w, 1, dot - 1)),
         frac  |-> StripTrailingZeros(SubSeq(w, dot + 1, Len(w)))]

IsCode(w) == Len(w) = 3 /\ \A i \in 1..3 : w[i] \in UpperLetters

\* index of the last non-space character of s at or before position n (0 if none)
LastNonSpace(s, n) ==
    LET ns == {i \in 1..n : ~IsSpace(s[i])}
    IN  IF ns = {} THEN 0 ELSE CHOOSE i \in ns : \A j \in ns : j <= i

\* re.match(r'^(\d+\.?\d*)\s+([A-Z]{3})\s+([A-Z]{3})$', user_message.strip().upper())
CurrencyParse(txt) ==
    LET s  == Upper(Strip(txt))
        n  == Len(s)
        j  == IF n >= 3 THEN LastNonSpace(s, n - 3) ELSE 0
        i  == IF j >= 3 THEN LastNonSpace(s, j - 3) ELSE 0
        ok == /\ n >= 3 /\ IsCode(SubSeq(s, n - 2, n))
              /\ j >= 3 /\ j < n - 3 /\ IsCode(SubSeq(s, j - 2, j))
              /\ i >= 1 /\ i < j - 3 /\ IsNumber(SubSeq(s, 1, i))
    IN  IF ok THEN [match |-> TRUE, amount |-> NumberValue(SubSeq(s, 1, i)),
                    from_curr |-> SubSeq(s, j - 2, j), to_curr |-> SubSeq(s, n - 2, n)]
        ELSE [match |-> FALSE, amount |-> NoAmount, from_curr |-> <<>>, to_curr |-> <<>>]

SUPPORTED_CURRENCIES ==
    {<<"U","S","D">>, <<"E","U","R">>, <<"G","B","P">>, <<"J","P","Y">>,
     <<"A","U","D">>, <<"C","A","D">>, <<"C","H","F">>, <<"C","N","Y">>,
     <<"S","E","K">>, <<"N","Z","D">>, <<"K","R","W">>, <<"S","G","D">>,
     <<"N","O","K">>, <<"M","X","N">>, <<"I","N","R">>, <<"B","R","L">>,
     <<"Z","A","R">>, <<"T","R","Y">>, <<"H","K","D">>, <<"I","D","R">>,
     <<"M","Y","R">>, <<"P","H","P">>, <<"T","H","B">>, <<"P","L","N">>,
     <<"C","Z","K">>, <<"H","U","F">>, <<"R","O","N">>, <<"B","G","N">>,
     <<"D","K","K">>, <<"I","S","K">>, <<"I","L","S">>}

\* float(): the texts it reads as not-a-number and as infinity, in any case
NAN_FORMS == {<<"N", "A", "N">>}

INF_FORMS == {<<"I", "N", "F">>, <<"I", "N", "F", "I", "N", "I", "T", "Y">>}

NanAmount == [whole |-> 0, frac |-> <<"n", "a", "n">>]

InfAmount == [whole |-> 0, frac |-> <<"i", "n", "f">>]

\* the plain decimal forms digits[.digits], digits. and .digits
DecimalForm(body) ==
    /\ body # <<>>
    /\ \A k \in 1..Len(body) : body[k] \in Digits \cup {"."}
    /\ Cardinality({k \in 1..Len(body) : body[k] = "."}) <= 1
    /\ \E k \in 1..Len(body) : body[k] \in Digits

\* float(user_message.strip().replace(',', '')) and the test amount <= 0,
\* for an optional sign followed by a plain decimal form, nan, inf or
\* infinity (the texts of the model use no exponent and no underscore).
\* nan <= 0 is False and so is inf <= 0: both pass the test.
AmountParse(txt) ==
    LET s    == RemoveCommas(Strip(txt))
        neg  == s # <<>> /\ s[1] = "-"
        body == IF s # <<>> /\ s[1] \in {"+", "-"} THEN Tail(s) ELSE s
        nan  == Upper(body) \in NAN_FORMS
        inf  == Upper(body) \in INF_FORMS
        dec  == DecimalForm(body)
        v    == NumberValue(body)
    IN  [ok |-> dec \/ nan \/ inf,
         positive |-> \/ dec /\ ~neg /\ (v.whole > 0 \/ v.frac # <<>>)
                      \/ nan
                      \/ inf /\ ~neg,
         amount |-> IF dec THEN v ELSE IF nan THEN NanAmount
                    ELSE IF inf THEN InfAmount ELSE NoAmount]

\* ------------------------------------------------------------------------
\* Handlers, each handled start to end (the dispatcher handles one update
\* at a time).  Every handler below is the body button_handler, start or
\* handle_user_input runs for the event, with the replies it sends.
\* ------------------------------------------------------------------------
Lang(u) == get_user_language(user_languages, u)

\* start: /start clears the session and the conversation buffer
start(u) ==
    /\ user_states' = clear_state_states(user_states, u)
    /\ user_conversations' = clear_state_conversations(user_conversations, u)
    /\ user_languages' = clear_state_languages(user_languages, u)
    /\ last' = Obs(u, "start", "welcome", <<>>, FALSE, {})
    /\ UNCHANGED <<now, bookings, report_requests, ai_sessions>>

\* study_command / work_command: jump to the country menu of a service
quick_service_command(u, service_type) ==
    /\ user_states' = set_state(user_states, u, "service_selected",
                                [EmptyData EXCEPT !.service_type = service_type,
                                                  !.language = Lang(u)])
    /\ last' = Obs(u, "quick_service_command", "countries_menu", <<>>, FALSE, {})
    /\ UNCHANGED <<user_conversations, user_languages, now, bookings,
                   report_requests, ai_sessions>>

handle_language_selection(u, tok) ==
    /\ user_languages' = [user_languages EXCEPT ![u] = tok[2]]
    /\ last' = Obs(u, "handle_language_selection", "services_menu", <<>>, FALSE, {})
    /\ UNCHANGED <<user_states, user_conversations, now, bookings,
                   report_requests, ai_sessions>>

handle_service_selection(u, tok) ==
    LET service_type == tok[2]
    IN  /\ IF service_type \in {"activities", "travel"}
           THEN /\ user_states' = user_states
                /\ last' = Obs(u, "handle_service_selection", "direct_services",
                               <<>>, FALSE, {})
           ELSE IF service_type = "cv"
           THEN /\ user_states' = user_states
                /\ last' = Obs(u, "handle_service_selection", "cv_menu",
                               <<>>, FALSE, {})
           ELSE /\ user_states' = set_state(user_states, u, "service_selected",
                                    [EmptyData EXCEPT !.service_type = service_type,
                                                      !.language = Lang(u)])
                /\ last' = Obs(u, "handle_service_selection", "countries_menu",
                               <<>>, FALSE, {})
        /\ UNCHANGED <<user_conversations, user_languages, now, bookings,
                       report_requests, ai_sessions>>

\* state['data']['service_type'] raises KeyError when the key is absent;
\* button_handler catches it and replies with the error text
handle_country_selection(u, tok) ==
    LET state == get_state(user_states, u)
        us1   == after_get_state(user_states, u)
        service_type == IF state.present THEN state.data.service_type ELSE "study"
    IN  /\ IF service_type = None
           THEN /\ user_states' = us1
                /\ last' = Obs(u, "handle_country_selection", "error", <<>>, FALSE, {})
           ELSE /\ user_states' = set_state(us1, u, "country_selected",
                                    [EmptyData EXCEPT !.service_type = service_type,
                                                      !.country = tok[2],
                                                      !.language = Lang(u)])
                /\ last' = Obs(u, "handle_country_selection", "ai_options",
                               <<>>, FALSE, {})
        /\ UNCHANGED <<user_conversations, user_languages, now, bookings,
                       report_requests, ai_sessions>>

show_menu(u, tok) ==
    /\ last' = Obs(u, Route(tok), Route(tok), <<>>, FALSE, {})
    /\ UNCHANGED <<user_states, user_conversations, user_languages, now,
                   bookings, report_requests, ai_sessions>>

show_currency_converter_start(u) ==
    /\ user_states' = set_state(user_states, u, "currency_waiting_amount", EmptyData)
    /\ last' = Obs(u, "show_currency_converter_start", "ask_amount", <<>>, FALSE, {})
    /\ UNCHANGED <<user_conversations, user_languages, now, bookings,
                   report_requests, ai_sessions>>

\* button_handler, branch curr_from_: nothing is sent when the state has no amount
curr_from(u, tok) ==
    LET state == get_state(user_states, u)
        us1   == after_get_state(user_states, u)
    IN  /\ IF state.present /\ state.data.amount # NoAmount
           THEN /\ user_states' = set_state(us1, u, "currency_select_to",
                                    [EmptyData EXCEPT !.amount = state.data.amount,
                                                      !.from_currency = tok[3]])
                /\ last' = Obs(u, "curr_from", "select_to", <<>>, FALSE, {})
           ELSE /\ user_states' = us1
                /\ last' = Obs(u, "curr_from", "none", <<>>, FALSE, {})
        /\ UNCHANGED <<user_conversations, user_languages, now, bookings,
                       report_requests, ai_sessions>>

\* button_handler, branch curr_to_: converts, replies, then clear_state
curr_to(u, tok, rate_ok) ==
    LET state == get_state(user_states, u)
        us1   == after_get_state(user_states, u)
    IN  /\ IF /\ state.present /\ state.data.amount # NoAmount
              /\ state.data.from_currency # None
           THEN /\ user_states' = clear_state_states(us1, u)
                /\ user_conversations' =
                       clear_state_conversations(user_conversations, u)
                /\ last' = [Obs(u, "curr_to",
                                IF rate_ok THEN "conversion" ELSE "conversion_error",
                                <<>>, FALSE, {})
                              EXCEPT !.rate_lookup = TRUE]
           ELSE /\ user_states' = us1
                /\ user_conversations' = user_conversations
                /\ last' = Obs(u, "curr_to", "none", <<>>, FALSE, {})
        /\ UNCHANGED <<user_languages, now, bookings, report_requests, ai_sessions>>

\* COUNTRIES[country][language] raises KeyError for a country that is no key
handle_ai_selection(u) ==
    LET state == get_state(user_states, u)
        us1   == after_get_state(user_states, u)
    IN  /\ IF ~state.present
           THEN /\ user_states' = us1
                /\ last' = Obs(u, "handle_ai_selection", "services_menu",
                               <<>>, FALSE, {})
           ELSE IF state.data.service_type = None \/ state.data.country \in {None, ""}
           THEN /\ user_states' = us1
                /\ last' = Obs(u, "handle_ai_selection", "error", <<>>, FALSE, {})
           ELSE /\ user_states' = set_state(us1, u, "ai_conversation",
                                    [EmptyData EXCEPT
                                        !.service_type = state.data.service_type,
                                        !.country = state.data.country,
                                        !.language = Lang(u),
                                        !.questions_asked = 0])
                /\ last' = Obs(u, "handle_ai_selection", "ai_welcome",
                               <<>>, FALSE, {})
        /\ UNCHANGED <<user_conversations, user_languages, now, bookings,
                       report_requests, ai_sessions>>

\* get_conversation hands out the stored list itself when the user has
\* one, and a fresh empty list when the user has none
stored_list_is_buffer(uc, u) == uc[u] # <<>>

handle_stop_ai_get_report(u) ==
    /\ user_states' = set_state(user_states, u, "collect_email_free_report",
                                [EmptyData EXCEPT
                                    !.conversation = get_conversation(user_conversations, u),
                                    !.shares_buffer = stored_list_is_buffer(user_conversations, u),
                                    !.language = Lang(u)])
    /\ last' = Obs(u, "handle_stop_ai_get_report", "ask_email", <<>>, FALSE, {})
    /\ UNCHANGED <<user_conversations, user_languages, now, bookings,
                   report_requests, ai_sessions>>

handle_detailed_report(u) ==
    LET conversation_snapshot == get_conversation(user_conversations, u)
        prev_state == get_state(user_states, u)
        us1        == after_get_state(user_states, u)
        country    == IF prev_state.present
                      THEN GetOr(prev_state.data.country, "") ELSE ""
        service_type == IF prev_state.present
                        THEN GetOr(prev_state.data.service_type, "study")
                        ELSE "study"
    IN  /\ user_states' = set_state(us1, u, "collect_info_report",
                                [EmptyData EXCEPT !.order_type = "report",
                                                  !.language = Lang(u),
                                                  !.country = country,
                                                  !.service_type = service_type,
                                                  !.conversation = conversation_snapshot])
        /\ last' = Obs(u, "handle_detailed_report", "ask_name", <<>>, FALSE, {})
        /\ UNCHANGED <<user_conversations, user_languages, now, bookings,
                       report_requests, ai_sessions>>

\* ------------------------------------------------------------------------
\* Calendar: dates are (year, month, day) in the business timezone; the
\* clock `now` counts hours from midnight of START_DATE, a Monday
\* ------------------------------------------------------------------------
START_DATE == [year |-> 2025, month |-> 11, day |-> 17]

START_WEEKDAY == 0

\* AVAILABLE_DAYS: Monday=0 to Friday=4
AVAILABLE_DAYS == {0, 1, 2, 3, 4}

IsLeap(y) == (y % 4 = 0 /\ y % 100 # 0) \/ y % 400 = 0

DaysInMonth(y, m) ==
    IF m = 2 THEN (IF IsLeap(y) THEN 29 ELSE 28)
    ELSE IF m \in {4, 6, 9, 11} THEN 30 ELSE 31

\* the dates a '%Y-%m-%d' string of the model's horizon can stand for
\* days of a common year before each month
DAYS_BEFORE_MONTH == <<0, 31, 59, 90, 120, 151, 181, 212, 243, 273, 304, 334>>

\* days of year y before month m, plus day
DayOfYear(y, m, day) ==
    DAYS_BEFORE_MONTH[m] + (IF m > 2 /\ IsLeap(y) THEN 1 ELSE 0) + day

RECURSIVE DaysBeforeYear(_)
\* days from 1 January 2025 to 1 January of year y
DaysBeforeYear(y) == IF y <= 2025 THEN 0 ELSE DaysBeforeYear(y - 1) + (IF IsLeap(y - 1) THEN 366 ELSE 365)

\* date.toordinal(), counted from 1 January 2025
Ordinal(d) == DaysBeforeYear(d.year) + DayOfYear(d.year, d.month, d.day)

START_ORDINAL == Ordinal(START_DATE)

\* date.fromordinal(n)
FromOrdinal(n) ==
    LET y   == CHOOSE yy \in 2025..2027 :
                  DaysBeforeYear(yy) < n /\ n <= DaysBeforeYear(yy + 1)
        doy == n - DaysBeforeYear(y)
        m   == CHOOSE mm \in 1..12 :
                  /\ DayOfYear(y, mm, 0) < doy
                  /\ doy <= DayOfYear(y, mm, 0) + DaysInMonth(y, mm)
    IN  [year |-> y, month |-> m, day |-> doy - DayOfYear(y, m, 0)]

\* date + timedelta(days=n)
AddDays(d, n) == FromOrdinal(Ordinal(d) + n)

\* date.weekday(): Monday is 0
Weekday(d) == (START_WEEKDAY + Ordinal(d) - START_ORDINAL) % 7

DIGITS == <<"0", "1", "2", "3", "4", "5", "6", "7", "8", "9">>

Pad2(n) == DIGITS[((n \div 10) % 10) + 1] \o DIGITS[(n % 10) + 1]

\* strftime('%Y-%m-%d')
strftime(d) == Pad2(d.year \div 100) \o Pad2(d.year % 100) \o "-" \o Pad2(d.month) \o "-" \o Pad2(d.day)

\* the dates a '%Y-%m-%d' string of the model's horizon can stand for
Dates == {AddDays(START_DATE, i) : i \in 0..(MaxDays + MaxDaysAhead)}

\* the '%Y-%m-%d' form of every date of the horizon
FORMATTED == [d \in Dates |-> strftime(d)]

\* datetime.strptime(s, '%Y-%m-%d')
strptime(s) == CHOOSE d \in Dates : FORMATTED[d] = s

\* datetime.now(belgium_tz), the calendar date of it
current_date == AddDays(START_DATE, now \div 24)

\* a scan of the days that starts tomorrow
get_available_dates_from_tomorrow(days_ahead) == LET today == current_date IN LET days == [i \in 1..days_ahead |-> AddDays(today, i)] IN LET Open(d) == Weekday(d) \in AVAILABLE_DAYS IN LET kept == SelectSeq(days, Open) IN [i \in 1..Len(kept) |-> strftime(kept[i])]

\* get_available_dates: range(days_ahead) scanned in order, the weekdays of
\* AVAILABLE_DAYS kept and formatted
get_available_dates(days_ahead) ==
    LET today == current_date
        days == [i \in 1..days_ahead |-> AddDays(today, i - 1)]
        Open(d) == Weekday(d) \in AVAILABLE_DAYS
        kept == SelectSeq(days, Open)
    IN  [i \in 1..Len(kept) |-> strftime(kept[i])]

DAYS_AHEAD == 14

CALENDAR_ROW == 3

DAY_NAMES == <<"mon", "tue", "wed", "thu", "fri", "sat", "sun">>

DAY_NAMES_AR == <<"al-ithnayn", "ath-thulatha", "al-arbia", "al-khamis", "al-juma">>

\* the caption of a date button: '%a, %b %d', or the Arabic day name and d/m
date_display(date, language) ==
    LET date_obj == strptime(date)
    IN  IF language = "ar"
        THEN <<DAY_NAMES_AR[Weekday(date_obj) + 1], date_obj.day, date_obj.month>>
        ELSE <<DAY_NAMES[Weekday(date_obj) + 1], date_obj.month, date_obj.day>>

\* generate_calendar_keyboard: the dates of the next 14 days in rows of 3,
\* then the back button on a row of its own
generate_calendar_keyboard(language) ==
    LET dates == get_available_dates(DAYS_AHEAD)
        n     == Len(dates)
        rows  == (n + CALENDAR_ROW - 1) \div CALENDAR_ROW
        row(r) == SubSeq(dates, (r - 1) * CALENDAR_ROW + 1,
                         IF r * CALENDAR_ROW <= n THEN r * CALENDAR_ROW ELSE n)
    IN  [r \in 1..rows |->
            [j \in 1..Len(row(r)) |->
                [display |-> date_display(row(r)[j], language),
                 callback_data |-> <<"date", row(r)[j]>>]]]
        \o <<<<[display |-> <<"back">>, callback_data |-> <<"back", "services">>]>>>>

handle_consultation(u) ==
    LET prev_state == get_state(user_states, u)
        us1        == after_get_state(user_states, u)
        country    == IF prev_state.present
                      THEN GetOr(prev_state.data.country, "") ELSE ""
        service_type == IF prev_state.present
                        THEN GetOr(prev_state.data.service_type, "study")
                        ELSE "study"
    IN  /\ user_states' = set_state(us1, u, "selecting_date",
                                [EmptyData EXCEPT !.order_type = "consultation",
                                                  !.language = Lang(u),
                                                  !.country = country,
                                                  !.service_type = service_type])
        /\ last' = [Obs(u, "handle_consultation", "calendar", <<>>, FALSE, {})
                      EXCEPT !.keyboard = generate_calendar_keyboard(Lang(u))]
        /\ UNCHANGED <<user_conversations, user_languages, now, bookings,
                       report_requests, ai_sessions>>

\* payment_<method>: also the branch that receives 'payment_confirmed', because
\* button_handler tests startswith('payment_') first
handle_payment_selection(u, tok) ==
    LET payment_method == tok[2]
        state == get_state(user_states, u)
        us1   == after_get_state(user_states, u)
    IN  /\ IF state.present
           THEN user_states' = set_state(us1, u, "payment_pending",
                                   [state.data EXCEPT !.payment_method = payment_method])
           ELSE user_states' = us1
        /\ last' = Obs(u, "handle_payment_selection", "payment_page", <<>>, FALSE, {})
        /\ UNCHANGED <<user_conversations, user_languages, now, bookings,
                       report_requests, ai_sessions>>

\* a keyboard that asks for the first slot only and marks every slot alike
generate_time_keyboard_first_check(bk, selected_date, oks) == [i \in 1..Len(AVAILABLE_TIMES) |-> [time |-> AVAILABLE_TIMES[i], callback |-> IF check_slot_available(bk, selected_date, AVAILABLE_TIMES[1], oks[1]) THEN "time" ELSE "booked", callback_data |-> <<IF check_slot_available(bk, selected_date, AVAILABLE_TIMES[1], oks[1]) THEN "time" ELSE "booked", selected_date, AVAILABLE_TIMES[i]>>]]

\* generate_time_keyboard: one check_slot_available call per slot of
\* AVAILABLE_TIMES; callback is the prefix of callback_data (the closing
\* 'back_to_calendar' row is left out)
generate_time_keyboard(bk, selected_date, oks) ==
    [i \in 1..Len(AVAILABLE_TIMES) |->
        LET is_available ==
                check_slot_available(bk, selected_date, AVAILABLE_TIMES[i], oks[i])
        IN  [time |-> AVAILABLE_TIMES[i],
             callback |-> IF is_available THEN "time" ELSE "booked",
             callback_data |-> <<IF is_available THEN "time" ELSE "booked",
                                 selected_date, AVAILABLE_TIMES[i]>>]]

handle_date_selection(u, tok, oks) ==
    LET selected_date == tok[2]
        state == get_state(user_states, u)
        us1   == after_get_state(user_states, u)
    IN  /\ IF state.present
           THEN user_states' = set_state(us1, u, "selecting_time",
                                   [state.data EXCEPT !.selected_date = selected_date])
           ELSE user_states' = us1
        /\ last' = [Obs(u, "handle_date_selection", "time_keyboard", <<>>, FALSE, {})
                      EXCEPT !.keyboard = generate_time_keyboard(bookings, selected_date, oks)]
        /\ UNCHANGED <<user_conversations, user_languages, now, bookings,
                       report_requests, ai_sessions>>

handle_time_selection(u, tok) ==
    LET selected_date == tok[2]
        selected_time == tok[3]
        state == get_state(user_states, u)
        us1   == after_get_state(user_states, u)
    IN  /\ IF state.present
           THEN user_states' = set_state(us1, u, "collect_info_consultation",
                                   [state.data EXCEPT !.selected_date = selected_date,
                                                      !.selected_time = selected_time])
           ELSE user_states' = us1
        /\ last' = Obs(u, "handle_time_selection", "ask_name", <<>>, FALSE, {})
        /\ UNCHANGED <<user_conversations, user_languages, now, bookings,
                       report_requests, ai_sessions>>

handle_cv_type_selection(u, tok) ==
    /\ user_states' = set_state(user_states, u, "cv_data_collection",
                                [EmptyData EXCEPT !.cv_type = tok[3],
                                                  !.language = Lang(u)])
    /\ last' = Obs(u, "handle_cv_type_selection", "ask_cv_data", <<>>, FALSE, {})
    /\ UNCHANGED <<user_conversations, user_languages, now, bookings,
                   report_requests, ai_sessions>>

\* ------------------------------------------------------------------------
\* handle_user_input: the branch a text message takes
\* ------------------------------------------------------------------------
TextBranch(u, txt) ==
    LET state == get_state(user_states, u)
    IN  IF CurrencyParse(txt).match THEN "currency_text"
        ELSE IF state.present /\ state.state = "currency_waiting_amount"
             THEN "currency_amount"
        ELSE IF state.present /\ state.state = "ai_conversation"
             THEN "handle_ai_conversation"
        ELSE IF state.present /\ state.state \in {"collect_info_report",
                                                  "collect_info_consultation"}
             THEN "handle_collect_info"
        ELSE IF state.present /\ state.state = "collect_email"
             THEN "handle_collect_email"
        ELSE IF state.present /\ state.state = "collect_email_free_report"
             THEN "handle_collect_email_free_report"
        ELSE IF state.present /\ state.state = "cv_data_collection"
             THEN "handle_cv_data_collection"
        ELSE "show_main_menu_message"

\* an allow-list test that looks at the target code only
currencies_supported_target_only(from_curr, to_curr) == to_curr \in SUPPORTED_CURRENCIES

\* from_curr not in SUPPORTED_CURRENCIES or to_curr not in SUPPORTED_CURRENCIES
currencies_supported(from_curr, to_curr) ==
    from_curr \in SUPPORTED_CURRENCIES /\ to_curr \in SUPPORTED_CURRENCIES

\* the currency pattern is tried before the session is even read; the rate
\* service (convert_currency) is called only past the allow-list test
currency_text(u, txt, rate_ok) ==
    LET m == CurrencyParse(txt)
        supported == currencies_supported(m.from_curr, m.to_curr)
    IN  /\ last' = [Obs(u, "currency_text",
                        IF ~supported THEN "currency_not_supported"
                        ELSE IF rate_ok THEN "conversion" ELSE "conversion_error",
                        <<>>, FALSE, {})
                      EXCEPT !.rate_lookup = supported]
        /\ UNCHANGED <<user_states, user_conversations, user_languages, now,
                       bookings, report_requests, ai_sessions>>

currency_amount(u, txt) ==
    LET us1 == after_get_state(user_states, u)
        p   == AmountParse(txt)
    IN  /\ IF p.ok /\ p.positive
           THEN /\ user_states' = set_state(us1, u, "currency_select_from",
                                    [EmptyData EXCEPT !.amount = p.amount])
                /\ last' = Obs(u, "currency_amount", "select_from", <<>>, FALSE, {})
           ELSE /\ user_states' = us1
                /\ last' = Obs(u, "currency_amount", "invalid_number", <<>>, FALSE, {})
        /\ UNCHANGED <<user_conversations, user_languages, now, bookings,
                       report_requests, ai_sessions>>

show_main_menu_message(u) ==
    /\ user_states' = after_get_state(user_states, u)
    /\ last' = Obs(u, "show_main_menu_message", "main_menu", <<>>, FALSE, {})
    /\ UNCHANGED <<user_conversations, user_languages, now, bookings,
                   report_requests, ai_sessions>>

AiAnswer == <<"o", "k">>

\* a cap test that is off by one
cap_reached_late(questions_asked) == questions_asked > MAX_AI_QUESTIONS

\* handle_ai_conversation: if questions_asked >= MAX_AI_QUESTIONS
cap_reached(questions_asked) == questions_asked >= MAX_AI_QUESTIONS

\* handle_ai_conversation.  The count is read once, at the start; the
\* session row is created when it is 0 and completed when it has reached the cap.
handle_ai_conversation(u, txt, ok_create, ok_mark, ok_update, ok_admin) ==
    LET state == get_state(user_states, u)
        data  == state.data
        questions_asked == get_question_count(user_conversations, u)
        as1   == IF questions_asked = 0
                 THEN create_ai_session(ai_sessions, ok_create, u, Lang(u),
                                        GetOr(data.country, "Unknown"),
                                        GetOr(data.service_type, "Unknown"))
                 ELSE ai_sessions
        mails == IF questions_asked = 0
                 THEN <<Mail("ai_session_started", <<"a", "d", "m", "i", "n">>, ok_admin)>>
                 ELSE <<>>
    IN  /\ user_states' = after_get_state(user_states, u)
        /\ IF cap_reached(questions_asked)
           THEN /\ ai_sessions' = mark_session_completed(as1, ok_mark, u)
                /\ user_conversations' = user_conversations
                /\ last' = Obs(u, "handle_ai_conversation", "questions_finished",
                               mails, FALSE,
                               IF ai_sessions' # ai_sessions THEN {"ai_sessions"} ELSE {})
           ELSE /\ user_conversations' =
                       add_conversation_message(
                           add_conversation_message(user_conversations, u, "user", txt),
                           u, "assistant", AiAnswer)
                /\ ai_sessions' = update_ai_session(as1, ok_update, u, questions_asked + 1)
                /\ last' = Obs(u, "handle_ai_conversation", "ai_response",
                               mails, TRUE,
                               IF ai_sessions' # ai_sessions THEN {"ai_sessions"} ELSE {})
        /\ UNCHANGED <<user_languages, now, bookings, report_requests>>

handle_collect_info(u, txt) ==
    LET state == get_state(user_states, u)
        data  == state.data
        order_type == IF state.state = "collect_info_report" THEN "report"
                      ELSE "consultation"
        new_state_data ==
            [EmptyData EXCEPT !.order_type = order_type,
                              !.name = txt,
                              !.language = GetOr(data.language, "en"),
                              !.country = GetOr(data.country, ""),
                              !.service_type = GetOr(data.service_type, "study"),
                              !.conversation = data.conversation,
                              !.shares_buffer = data.shares_buffer,
                              !.selected_date = IF order_type = "consultation"
                                                THEN data.selected_date ELSE None,
                              !.selected_time = IF order_type = "consultation"
                                                THEN data.selected_time ELSE None]
    IN  /\ user_states' = set_state(after_get_state(user_states, u), u,
                                    "collect_email", new_state_data)
        /\ last' = Obs(u, "handle_collect_info", "ask_email", <<>>, FALSE, {})
        /\ UNCHANGED <<user_conversations, user_languages, now, bookings,
                       report_requests, ai_sessions>>

\* '@' not in user_message or '.' not in user_message
InvalidEmail(txt) == ~Contains(txt, "@") \/ ~Contains(txt, ".")

handle_collect_email(u, txt) ==
    LET state == get_state(user_states, u)
        data  == state.data
        order_type == GetOr(data.order_type, "report")
        payment_data ==
            [EmptyData EXCEPT !.order_type = order_type,
                              !.name = IF data.name = NoneText THEN <<>> ELSE data.name,
                              !.email = txt,
                              !.language = GetOr(data.language, "en"),
                              !.country = GetOr(data.country, ""),
                              !.service_type = GetOr(data.service_type, "study"),
                              !.conversation = data.conversation,
                              !.shares_buffer = data.shares_buffer,
                              !.selected_date = IF order_type = "consultation"
                                                THEN data.selected_date ELSE None,
                              !.selected_time = IF order_type = "consultation"
                                                THEN data.selected_time ELSE None]
    IN  /\ IF InvalidEmail(txt)
           THEN /\ user_states' = after_get_state(user_states, u)
                /\ last' = Obs(u, "handle_collect_email", "invalid_email",
                               <<>>, FALSE, {})
           ELSE /\ user_states' = set_state(after_get_state(user_states, u), u,
                                            "payment_pending", payment_data)
                /\ last' = Obs(u, "handle_collect_email", "payment_methods",
                               <<>>, FALSE, {})
        /\ UNCHANGED <<user_conversations, user_languages, now, bookings,
                       report_requests, ai_sessions>>

\* the same calls with the reset of the session moved to the end
FREE_REPORT_STEPS_RESET_LAST ==
    <<"mark_report_requested", "mark_session_completed", "summary",
      "send_admin_notification", "send_email_report", "reply_text", "set_state">>

\* handle_collect_email_free_report, past the address test: the calls it
\* makes, in the order of the code
FREE_REPORT_STEPS ==
    <<"mark_report_requested", "mark_session_completed", "set_state", "summary",
      "send_admin_notification", "send_email_report", "reply_text">>

\* a reset that leaves the session as it is
free_report_reset_skipped(us, u) == us

\* "Clear the AI conversation state": set_state(user_id, None, {})
free_report_reset(us, u) == set_state(us, u, None, EmptyData)

\* a handler that gives up at the first failed call
free_report_gives_up(ok) == ~ok

\* each marking call and the admin notification sit in a try / except of
\* their own that only prints: a failure never ends the handler
free_report_aborts(ok) == FALSE

\* a reply that always announces the report as sent
free_report_reply_always_sent(email_sent) == "report_sent"

\* the closing reply, chosen by the result of send_email_report
free_report_reply(email_sent) == IF email_sent THEN "report_sent" ELSE "report_failed"

\* the transcript: "Q: ..." / "A: ..." for the last 10 stored turns
free_report_summary(conversation) ==
    LET turns == LastN(conversation, CONVERSATION_WINDOW)
    IN  [i \in 1..Len(turns) |->
            [label |-> IF turns[i].role = "user" THEN "Q" ELSE "A",
             content |-> turns[i].content]]

\* the session tag a call finds when it starts
SessionTag(us, u) == IF us[u].present THEN us[u].state ELSE "absent"

\* one call of the handler applied to what the earlier calls left
free_report_step(step, ctx, u, txt, oks) ==
    LET logged == [ctx EXCEPT !.log = Append(@, [step |-> step,
                                                  state |-> SessionTag(ctx.us, u)])]
    IN  CASE step = "mark_report_requested" ->
                [logged EXCEPT !.sessions = mark_report_requested(@, oks.req, u, txt),
                               !.aborted = free_report_aborts(oks.req)]
          [] step = "mark_session_completed" ->
                [logged EXCEPT !.sessions = mark_session_completed(@, oks.done, u),
                               !.aborted = free_report_aborts(oks.done)]
          [] step = "set_state" ->
                [logged EXCEPT !.us = free_report_reset(@, u)]
          [] step = "summary" ->
                [logged EXCEPT !.summary = free_report_summary(ctx.conversation)]
          [] step = "send_admin_notification" ->
                [logged EXCEPT !.mails = Append(@, Mail("free_report_requested",
                                                        <<"a", "d", "m", "i", "n">>,
                                                        oks.admin)),
                               !.aborted = free_report_aborts(oks.admin)]
          [] step = "send_email_report" ->
                [logged EXCEPT !.mails = Append(@, Mail("Free AI Conversation Report",
                                                        txt, oks.mail)),
                               !.email_sent = oks.mail]
          [] step = "reply_text" ->
                [logged EXCEPT !.reply = free_report_reply(ctx.email_sent)]

RECURSIVE free_report_run(_, _, _, _, _)
free_report_run(steps, ctx, u, txt, oks) ==
    IF steps = <<>> \/ ctx.aborted THEN ctx
    ELSE free_report_run(Tail(steps), free_report_step(Head(steps), ctx, u, txt, oks),
                         u, txt, oks)

\* handle_collect_email_free_report: validate, mark the AI session, "clear"
\* the state with set_state(user_id, None, {}), notify the operator, mail
\* the user, report the result of the user's mail
handle_collect_email_free_report(u, txt, ok_req, ok_done, ok_admin, ok_mail) ==
    LET us1 == after_get_state(user_states, u)
        oks == [req |-> ok_req, done |-> ok_done, admin |-> ok_admin, mail |-> ok_mail]
        ctx0 == [us |-> us1, sessions |-> ai_sessions, mails |-> <<>>, log |-> <<>>,
                 conversation |-> get_state(user_states, u).data.conversation,
                 summary |-> <<>>,
                 reply |-> "error", email_sent |-> FALSE, aborted |-> FALSE]
        ctx == free_report_run(FREE_REPORT_STEPS, ctx0, u, txt, oks)
    IN  /\ IF InvalidEmail(txt)
           THEN /\ user_states' = us1
                /\ ai_sessions' = ai_sessions
                /\ last' = Obs(u, "handle_collect_email_free_report", "invalid_email",
                               <<>>, FALSE, {})
           ELSE /\ ai_sessions' = ctx.sessions
                /\ user_states' = ctx.us
                /\ last' = [Obs(u, "handle_collect_email_free_report", ctx.reply,
                                ctx.mails, FALSE,
                                IF ai_sessions' # ai_sessions THEN {"ai_sessions"} ELSE {})
                              EXCEPT !.log = ctx.log]
        /\ UNCHANGED <<user_conversations, user_languages, now, bookings,
                       report_requests>>

\* handle_cv_data_collection: insert into cv_requests, show the payment
\* links, clear_state; a refused connection or a failed insert returns early
handle_cv_data_collection(u, ok) ==
    LET us1 == after_get_state(user_states, u)
    IN  /\ IF ok
           THEN /\ user_states' = clear_state_states(us1, u)
                /\ user_conversations' =
                       clear_state_conversations(user_conversations, u)
                /\ last' = Obs(u, "handle_cv_data_collection", "cv_payment",
                               <<>>, FALSE, {"cv_requests"})
           ELSE /\ user_states' = us1
                /\ user_conversations' = user_conversations
                /\ last' = Obs(u, "handle_cv_data_collection", "error",
                               <<>>, FALSE, {})
        /\ UNCHANGED <<user_languages, now, bookings, report_requests, ai_sessions>>

\* handle_payment_confirmed, report branch: the stored conversation_summary
PLACEHOLDER_SUMMARY == "User ordered detailed report without using AI assistant first."

\* the join of the formatted turns without the test for an empty history
conversation_summary_unguarded(conversation) == [i \in 1..Len(conversation) |-> [label |-> IF conversation[i].role = "user" THEN "USER" ELSE "AI", content |-> conversation[i].content]]

conversation_summary(conversation) ==
    IF conversation # <<>>
    THEN [i \in 1..Len(conversation) |->
            [label |-> IF conversation[i].role = "user" THEN "USER" ELSE "AI",
             content |-> conversation[i].content]]
    ELSE <<[label |-> PLACEHOLDER_SUMMARY, content |-> <<>>]>>

\* an except clause that also drops the session
on_commit_exception_clearing(us, u) == clear_state_states(us, u)

\* handle_payment_confirmed, except clause: the session store is not touched
on_commit_exception(us, u) == us

\* handle_payment_confirmed, consultation branch: save_booking from the session
commit_bookings(bk, ok_save, u, data) ==
    IF GetOr(data.order_type, "report") = "consultation"
    THEN save_booking(bk, ok_save, u, data.name, data.email, "consultation",
                      GetOr(data.country, ""), data.selected_date,
                      data.selected_time, data.payment_method)
    ELSE bk

\* handle_payment_confirmed, report branch: save_report_request from the session
commit_reports(rr, ok_save, u, data) ==
    IF GetOr(data.order_type, "report") = "consultation"
    THEN rr
    ELSE save_report_request(rr, ok_save, u, data.name, data.email,
                             GetOr(data.country, ""),
                             GetOr(data.service_type, "study"),
                             conversation_summary(data.conversation),
                             data.payment_method)

\* handle_payment_confirmed: insert the booking or the report request, mail
\* the client, clear_state.  Any exception between the insert and the clear
\* (a failed insert, strptime on a missing date) leaves the session as it is.
handle_payment_confirmed(u, ok_save, ok_mail) ==
    LET state == get_state(user_states, u)
        us1   == after_get_state(user_states, u)
        data  == state.data
        order_type == GetOr(data.order_type, "report")
        accepted == InsertAccepted(ok_save, data.name, data.email, data.payment_method)
        table == IF order_type = "consultation" THEN "bookings" ELSE "report_requests"
        raised == \/ ~accepted
                  \/ order_type = "consultation" /\ data.selected_date = None
    IN  IF ~state.present
        THEN /\ user_states' = us1
             /\ last' = Obs(u, "handle_payment_confirmed", "session_expired",
                            <<>>, FALSE, {})
             /\ UNCHANGED <<user_conversations, user_languages, now, bookings,
                            report_requests, ai_sessions>>
        ELSE /\ bookings' = commit_bookings(bookings, ok_save, u, data)
             /\ report_requests' = commit_reports(report_requests, ok_save, u, data)
             /\ IF raised
                THEN /\ user_states' = on_commit_exception(us1, u)
                     /\ user_conversations' = user_conversations
                     /\ last' = Obs(u, "handle_payment_confirmed", "commit_failed",
                                    <<>>, FALSE, IF accepted THEN {table} ELSE {})
                ELSE /\ user_states' = clear_state_states(us1, u)
                     /\ user_conversations' =
                            clear_state_conversations(user_conversations, u)
                     /\ last' = Obs(u, "handle_payment_confirmed",
                                    IF order_type = "consultation"
                                    THEN "booking_confirmed" ELSE "report_confirmed",
                                    <<Mail(IF order_type = "consultation"
                                           THEN "Consultation Booking"
                                           ELSE "Detailed Report", data.email, ok_mail)>>,
                                    FALSE, {table})
             /\ UNCHANGED <<user_languages, now, ai_sessions>>

\* ------------------------------------------------------------------------
\* handle_payment_confirmed as a coroutine: it runs from one suspension point
\* to the next.  Its awaits are query.answer() of the dispatcher, the two
\* send_email_report calls and the closing edit_message_text.
\* ------------------------------------------------------------------------
TaskIds == {1, 2}

\* pc: where the coroutine waits; pending: whether the checkout was pending
\* when the event was dispatched; segments: how many times it has run since
IdleTask == [pc |-> "idle", user |-> 0, order_type |-> None, result |-> "none",
             pending |-> FALSE, mails |-> <<>>, segments |-> 0,
             questions_asked |-> -1, text |-> <<>>]

\* a send_email_report that awaits its transport
send_email_report_yields == TRUE

\* send_email_report: an async def whose body has no await (smtplib is
\* synchronous), so awaiting it never gives the event loop to another coroutine
send_email_report_suspends == FALSE

\* the event is dispatched: the handler is past await query.answer()
hpc_enter(t, u) ==
    LET state == get_state(user_states, u)
    IN  /\ tasks[t].pc = "idle"
        /\ tasks' = [tasks EXCEPT ![t] =
                        [IdleTask EXCEPT !.pc = "entered", !.user = u,
                                         !.pending = /\ state.present
                                                     /\ state.state = "payment_pending"]]
        /\ UNCHANGED <<user_states, user_conversations, user_languages, now,
                       bookings, report_requests, ai_sessions, last>>

\* from get_state to the next suspension point: the closing reply, or the
\* send_email_report call if that one suspends
hpc_body(t, ok_save, ok_mail) ==
    LET u     == tasks[t].user
        state == get_state(user_states, u)
        data  == state.data
        order_type == GetOr(data.order_type, "report")
        accepted == InsertAccepted(ok_save, data.name, data.email, data.payment_method)
        raised == \/ ~accepted
                  \/ order_type = "consultation" /\ data.selected_date = None
        mails == <<Mail(IF order_type = "consultation" THEN "Consultation Booking"
                        ELSE "Detailed Report", data.email, ok_mail)>>
    IN  /\ tasks[t].pc = "entered"
        /\ IF send_email_report_suspends /\ state.present /\ ~raised
           THEN /\ bookings' = commit_bookings(bookings, ok_save, u, data)
                /\ report_requests' = commit_reports(report_requests, ok_save, u, data)
                /\ user_states' = after_get_state(user_states, u)
                /\ last' = Obs(u, "handle_payment_confirmed", "sending_mail", <<>>,
                               FALSE, {})
                /\ tasks' = [tasks EXCEPT ![t].pc = "mailing",
                                          ![t].segments = 1,
                                          ![t].order_type = order_type,
                                          ![t].result = "inserted",
                                          ![t].mails = mails]
                /\ UNCHANGED <<user_conversations, user_languages, now, ai_sessions>>
           ELSE /\ handle_payment_confirmed(u, ok_save, ok_mail)
                /\ tasks' = [tasks EXCEPT
                      ![t].pc = "replying",
                      ![t].segments = 1,
                      ![t].order_type = order_type,
                      ![t].result =
                          IF ~state.present THEN "expired"
                          ELSE IF Len(bookings') + Len(report_requests')
                                     > Len(bookings) + Len(report_requests)
                               THEN "inserted" ELSE "failed"]

\* the coroutine is resumed: after the mail it clears the session and sends
\* the confirmation; after the closing reply it ends
hpc_resume(t) ==
    LET u == tasks[t].user
    IN  /\ tasks[t].pc \in {"mailing", "replying"}
        /\ IF tasks[t].pc = "mailing"
           THEN /\ user_states' = clear_state_states(user_states, u)
                /\ user_conversations' = clear_state_conversations(user_conversations, u)
                /\ last' = Obs(u, "handle_payment_confirmed",
                               IF tasks[t].order_type = "consultation"
                               THEN "booking_confirmed" ELSE "report_confirmed",
                               tasks[t].mails, FALSE, {})
                /\ tasks' = [tasks EXCEPT ![t].pc = "replying", ![t].segments = 2]
                /\ UNCHANGED <<user_languages, now, bookings, report_requests,
                               ai_sessions>>
           ELSE /\ tasks' = [tasks EXCEPT ![t] = IdleTask]
                /\ UNCHANGED <<user_states, user_conversations, user_languages, now,
                               bookings, report_requests, ai_sessions, last>>

\* ------------------------------------------------------------------------
\* handle_ai_conversation as a coroutine.  Its awaits are the operator
\* notification of the first question, the 'questions finished' reply,
\* send_action("typing"), get_ai_response and the closing reply_text.
\* get_ai_response posts with the synchronous requests library and has no
\* await inside, so awaiting it never suspends.
\* ------------------------------------------------------------------------
\* a send_admin_notification that awaits its transport
send_admin_notification_yields == TRUE

\* send_admin_notification: an async def whose body has no await (smtplib
\* is synchronous), so awaiting it never gives the event loop away
send_admin_notification_suspends == FALSE

\* the message is dispatched to handle_ai_conversation, which runs to its
\* first suspension point: the count is read, the first question creates
\* the row and notifies the operator, the cap is tested, the user turn is
\* added (lines 2921-2968)
hac_enter(t, u, txt, ok_create, ok_mark, ok_admin) ==
    LET state == get_state(user_states, u)
        data  == state.data
        questions_asked == get_question_count(user_conversations, u)
        as1   == IF questions_asked = 0
                 THEN create_ai_session(ai_sessions, ok_create, u, Lang(u),
                                        GetOr(data.country, "Unknown"),
                                        GetOr(data.service_type, "Unknown"))
                 ELSE ai_sessions
        mails == IF questions_asked = 0
                 THEN <<Mail("ai_session_started", <<"a", "d", "m", "i", "n">>, ok_admin)>>
                 ELSE <<>>
        started == [IdleTask EXCEPT !.user = u, !.text = txt,
                                    !.questions_asked = questions_asked,
                                    !.mails = mails, !.segments = 1]
    IN  /\ tasks[t].pc = "idle"
        /\ TextBranch(u, txt) = "handle_ai_conversation"
        /\ user_states' = after_get_state(user_states, u)
        /\ IF questions_asked = 0 /\ send_admin_notification_suspends
           THEN /\ ai_sessions' = as1
                /\ user_conversations' = user_conversations
                /\ tasks' = [tasks EXCEPT ![t] = [started EXCEPT !.pc = "notifying"]]
                /\ last' = Obs(u, "handle_ai_conversation", "notifying", mails, FALSE,
                               IF ai_sessions' # ai_sessions THEN {"ai_sessions"} ELSE {})
           ELSE IF cap_reached(questions_asked)
           THEN /\ ai_sessions' = mark_session_completed(as1, ok_mark, u)
                /\ user_conversations' = user_conversations
                /\ tasks' = [tasks EXCEPT ![t] = [started EXCEPT !.pc = "replying"]]
                /\ last' = Obs(u, "handle_ai_conversation", "questions_finished",
                               mails, FALSE,
                               IF ai_sessions' # ai_sessions THEN {"ai_sessions"} ELSE {})
           ELSE /\ ai_sessions' = as1
                /\ user_conversations' =
                       add_conversation_message(user_conversations, u, "user", txt)
                /\ tasks' = [tasks EXCEPT ![t] = [started EXCEPT !.pc = "typing"]]
                /\ last' = Obs(u, "handle_ai_conversation", "typing", mails, FALSE,
                               IF ai_sessions' # ai_sessions THEN {"ai_sessions"} ELSE {})
        /\ UNCHANGED <<user_languages, now, bookings, report_requests>>

\* the coroutine is resumed: after the notification it tests the cap (on the
\* count it read) and adds the user turn; after send_action it gets the
\* answer, adds the assistant turn and writes the count it read plus one;
\* after the closing reply it ends (lines 2954-3029)
hac_resume(t, ok_update) ==
    LET u == tasks[t].user
        questions_asked == tasks[t].questions_asked
    IN  /\ tasks[t].pc \in {"notifying", "typing", "replying"}
        /\ tasks[t].questions_asked >= 0
        /\ IF tasks[t].pc = "notifying"
           THEN /\ user_conversations' =
                       add_conversation_message(user_conversations, u, "user",
                                                tasks[t].text)
                /\ tasks' = [tasks EXCEPT ![t].pc = "typing", ![t].segments = 2]
                /\ last' = Obs(u, "handle_ai_conversation", "typing", <<>>, FALSE, {})
                /\ UNCHANGED ai_sessions
           ELSE IF tasks[t].pc = "typing"
           THEN /\ user_conversations' =
                       add_conversation_message(user_conversations, u, "assistant",
                                                AiAnswer)
                /\ ai_sessions' = update_ai_session(ai_sessions, ok_update, u,
                                                    questions_asked + 1)
                /\ tasks' = [tasks EXCEPT ![t].pc = "replying",
                                          ![t].segments = tasks[t].segments + 1]
                /\ last' = Obs(u, "handle_ai_conversation", "ai_response",
                               <<>>, TRUE,
                               IF ai_sessions' # ai_sessions THEN {"ai_sessions"} ELSE {})
           ELSE /\ tasks' = [tasks EXCEPT ![t] = IdleTask]
                /\ UNCHANGED <<user_conversations, ai_sessions, last>>
        /\ UNCHANGED <<user_states, user_languages, now, bookings, report_requests>>

\* ------------------------------------------------------------------------
\* Environment
\* ------------------------------------------------------------------------
\* an hour passes
Tick ==
    /\ now < MaxClock
    /\ now' = now + 1
    /\ UNCHANGED <<user_states, user_conversations, user_languages, bookings,
                   report_requests, ai_sessions, last, tasks>>

\* the operator cancels a booking in the store (status is the only column
\* of a booking that is ever updated)
CancelBooking(i) ==
    /\ bookings[i].status # "cancelled"
    /\ bookings' = [bookings EXCEPT ![i].status = "cancelled"]
    /\ UNCHANGED <<user_states, user_conversations, user_languages, now,
                   report_requests, ai_sessions, last, tasks>>

\* get_available_dates called on its own: the log holds the argument, the
\* keyboard field the list returned
call_get_available_dates(days_ahead) ==
    /\ last' = [Obs(0, "get_available_dates", "none", <<>>, FALSE, {})
                  EXCEPT !.log = <<Pad2(days_ahead)>>,
                         !.keyboard = get_available_dates(days_ahead)]
    /\ UNCHANGED <<user_states, user_conversations, user_languages, now, bookings,
                   report_requests, ai_sessions, tasks>>

\* ------------------------------------------------------------------------
\* The methods of UserStateManager called on their own
\* ------------------------------------------------------------------------
store_set_state(u, state, data) ==
    /\ user_states' = set_state(user_states, u, state, data)
    /\ last' = Obs(u, "set_state", "none", <<>>, FALSE, {"user_states"})
    /\ UNCHANGED <<user_conversations, user_languages, now, bookings,
                   report_requests, ai_sessions, tasks>>

\* get_state: the reply is what the caller gets, writes tells a purge
store_get_state(u) ==
    /\ user_states' = after_get_state(user_states, u)
    /\ last' = Obs(u, "get_state",
                   IF get_state(user_states, u).present THEN "session" ELSE "no_session",
                   <<>>, FALSE,
                   IF user_states' # user_states THEN {"user_states"} ELSE {})
    /\ UNCHANGED <<user_conversations, user_languages, now, bookings,
                   report_requests, ai_sessions, tasks>>

\* what add_conversation_message does to a payload holding the buffer's own
\* list: append() is seen through the payload, and the slice assignment
\* binds the buffer to a new list, leaving the payload the old one
aliased_after_add(us, uc, u, role, content) ==
    IF us[u].present /\ us[u].data.shares_buffer
    THEN LET appended == Append(uc[u], [role |-> role, content |-> content])
         IN  [us EXCEPT ![u].data.conversation = appended,
                        ![u].data.shares_buffer = Len(appended) <= CONVERSATION_WINDOW]
    ELSE us

store_add_message(u, role, content) ==
    /\ user_conversations' = add_conversation_message(user_conversations, u, role, content)
    /\ user_states' = aliased_after_add(user_states, user_conversations, u, role, content)
    /\ last' = Obs(u, "add_conversation_message", "none", <<>>, FALSE, {})
    /\ UNCHANGED <<user_languages, now, bookings, report_requests, ai_sessions,
                   tasks>>

store_clear_state(u) ==
    /\ user_states' = clear_state_states(user_states, u)
    /\ user_conversations' = clear_state_conversations(user_conversations, u)
    /\ user_languages' = clear_state_languages(user_languages, u)
    /\ last' = Obs(u, "clear_state", "none", <<>>, FALSE, {})
    /\ UNCHANGED <<now, bookings, report_requests, ai_sessions, tasks>>

\* ------------------------------------------------------------------------
\* Initial state: an empty store and empty tables
\* ------------------------------------------------------------------------
Init ==
    /\ user_states = [u \in Users |-> NoEntry]
    /\ user_conversations = [u \in Users |-> <<>>]
    /\ user_languages = [u \in Users |-> "unset"]
    /\ now = 0
    /\ bookings = <<>>
    /\ report_requests = <<>>
    /\ ai_sessions = <<>>
    /\ last = Obs(0, "none", "none", <<>>, FALSE, {})
    /\ tasks = [t \in TaskIds |-> IdleTask]

\* ------------------------------------------------------------------------
\* The dispatchers
\* ------------------------------------------------------------------------
OkPatterns ==
    {[i \in 1..Len(AVAILABLE_TIMES) |-> TRUE],
     [i \in 1..Len(AVAILABLE_TIMES) |-> FALSE],
     [i \in 1..Len(AVAILABLE_TIMES) |-> i # 1]}

\* button_handler: the handler Route selects; 'payment_confirmed' never
\* selects handle_payment_confirmed (the startswith('payment_') test is first)
button_handler(u, tok) ==
    LET r == Route(tok)
    IN  CASE r = "handle_language_selection" -> handle_language_selection(u, tok)
          [] r = "handle_service_selection" -> handle_service_selection(u, tok)
          [] r = "handle_country_selection" -> handle_country_selection(u, tok)
          [] r = "curr_from" -> curr_from(u, tok)
          [] r = "curr_to" -> \E rate_ok \in BOOLEAN : curr_to(u, tok, rate_ok)
          [] r = "show_currency_converter_start" -> show_currency_converter_start(u)
          [] r = "handle_ai_selection" -> handle_ai_selection(u)
          [] r = "handle_stop_ai_get_report" -> handle_stop_ai_get_report(u)
          [] r = "handle_detailed_report" -> handle_detailed_report(u)
          [] r = "handle_consultation" -> handle_consultation(u)
          [] r = "handle_payment_selection" -> handle_payment_selection(u, tok)
          [] r = "handle_date_selection" ->
                \E oks \in OkPatterns : handle_date_selection(u, tok, oks)
          [] r = "handle_time_selection" -> handle_time_selection(u, tok)
          [] r = "handle_payment_confirmed" ->
                \E ok_save, ok_mail \in BOOLEAN :
                    handle_payment_confirmed(u, ok_save, ok_mail)
          [] r = "handle_cv_type_selection" -> handle_cv_type_selection(u, tok)
          [] OTHER -> show_menu(u, tok)

\* handle_user_input: the currency pattern first, then the state's handler;
\* Db is the set of outcomes the writes to ai_sessions can have
handle_user_input_db(u, txt, Db) ==
    LET b == TextBranch(u, txt)
    IN  CASE b = "currency_text" -> \E rate_ok \in BOOLEAN : currency_text(u, txt, rate_ok)
          [] b = "currency_amount" -> currency_amount(u, txt)
          [] b = "handle_ai_conversation" ->
                \E ok_create, ok_mark, ok_update \in Db : \E ok_admin \in BOOLEAN :
                    handle_ai_conversation(u, txt, ok_create, ok_mark, ok_update, ok_admin)
          [] b = "handle_collect_info" -> handle_collect_info(u, txt)
          [] b = "handle_collect_email" -> handle_collect_email(u, txt)
          [] b = "handle_collect_email_free_report" ->
                \E ok_req, ok_done \in Db : \E ok_admin, ok_mail \in BOOLEAN :
                    handle_collect_email_free_report(u, txt, ok_req, ok_done,
                                                     ok_admin, ok_mail)
          [] b = "handle_cv_data_collection" ->
                \E ok \in BOOLEAN : handle_cv_data_collection(u, ok)
          [] OTHER -> show_main_menu_message(u)

\* handle_user_input with the store free to refuse any write
handle_user_input(u, txt) == handle_user_input_db(u, txt, BOOLEAN)

\* ------------------------------------------------------------------------
\* The updates the application registers handlers for (main), handled one at
\* a time: /start, a button press, a text message.  rows caps the ai_sessions
\* table (the only table a registered handler of the model appends to).
\* ------------------------------------------------------------------------
Router(U, Toks, Txts, rows) ==
    \E u \in U :
        \/ start(u) /\ UNCHANGED tasks
        \/ \E tok \in Toks : button_handler(u, tok) /\ UNCHANGED tasks
        \/ \E txt \in Txts : /\ handle_user_input(u, txt)
                              /\ Len(ai_sessions') <= rows
                              /\ UNCHANGED tasks

\* handle_payment_confirmed run as the operation it implements (no branch of
\* button_handler reaches it), the tables capped
Commit(U) ==
    \E u \in U : \E ok_save, ok_mail \in BOOLEAN :
        /\ handle_payment_confirmed(u, ok_save, ok_mail)
        /\ Len(bookings') <= MaxBookings
        /\ Len(report_requests') <= MaxReports
        /\ UNCHANGED tasks

TheDate == "2025-11-17"

\* ------------------------------------------------------------------------
\* Spec: the two checkout flows (detailed report, consultation) of one user,
\* as button_handler and handle_user_input dispatch them
\* ------------------------------------------------------------------------
CheckoutTokens ==
    {<<"country", "germany">>, <<"detailed", "report">>, <<"consultation">>,
     <<"date", TheDate>>, <<"time", TheDate, "10:00">>,
     <<"payment", "stripe">>, <<"payment", "paypal">>, <<"payment", "confirmed">>,
     <<"back", "services">>}

CheckoutTexts == {TxtName, TxtEmail, TxtNoDot}

Next ==
    \/ Router({101}, CheckoutTokens, CheckoutTexts, MaxAiSessions)
    \/ Tick

Spec == Init /\ [][Next]_vars

\* ------------------------------------------------------------------------
\* SpecAI: the free AI conversation and the free report of one user
\* ------------------------------------------------------------------------
AiTokens ==
    {<<"service", "study">>, <<"country", "germany">>, <<"ai", "start">>,
     <<"stop", "ai", "get", "report">>, <<"back", "services">>}

AiTexts == {TxtEmail}

NextAI == Router({101}, AiTokens, AiTexts, MaxAiSessions)

SpecAI == Init /\ [][NextAI]_vars

\* SpecAIRows: the same with room for a second ai_sessions row
NextAIRows == Router({101}, AiTokens, AiTexts, MaxAiSessionsWide)

SpecAIRows == Init /\ [][NextAIRows]_vars

\* SpecAIUp: the AI conversation of one user with the database available,
\* every write to ai_sessions succeeding
NextAIUp ==
    \/ start(101) /\ UNCHANGED tasks
    \/ \E tok \in AiTokens : button_handler(101, tok) /\ UNCHANGED tasks
    \/ \E txt \in AiTexts : /\ handle_user_input_db(101, txt, {TRUE})
                              /\ Len(ai_sessions') <= MaxAiSessions
                              /\ UNCHANGED tasks

SpecAIUp == Init /\ [][NextAIUp]_vars

\* ------------------------------------------------------------------------
\* SpecCommit: the checkout flows of one user with handle_payment_confirmed
\* run as the operation it implements, and the operator cancelling bookings
\* ------------------------------------------------------------------------
CommitTokens ==
    {<<"detailed", "report">>, <<"consultation">>, <<"date", TheDate>>,
     <<"time", TheDate, "10:00">>, <<"payment", "stripe">>}

CommitTexts == {TxtName, TxtEmail}

NextCommit ==
    \/ Router({101}, CommitTokens, CommitTexts, MaxAiSessions)
    \/ Commit({101})
    \/ \E i \in Indices(bookings) : CancelBooking(i)

SpecCommit == Init /\ [][NextCommit]_vars

\* ------------------------------------------------------------------------
\* SpecSlots: the consultation flow of two users competing for one slot
\* ------------------------------------------------------------------------
SlotTokens ==
    {<<"consultation">>, <<"time", TheDate, "10:00">>, <<"payment", "stripe">>}

NextSlots ==
    \/ Router(Users, SlotTokens, CommitTexts, MaxAiSessions)
    \/ Commit(Users)

SpecSlots == Init /\ [][NextSlots]_vars

\* ------------------------------------------------------------------------
\* Overlapping 'I Paid' events: one user completes a checkout, then up to
\* two handle_payment_confirmed coroutines are in flight at once and are
\* resumed in any order.  (The Application built in main handles updates one
\* at a time; every interleaving at the awaits is allowed here, which
\* contains what the program does.)  No other event of the user is handled
\* while one of them is in flight.
\* ------------------------------------------------------------------------
AllIdle == \A t \in TaskIds : tasks[t].pc = "idle"

NextRace ==
    \/ AllIdle /\ Router({101}, CommitTokens, CommitTexts, MaxAiSessions)
    \/ \E t \in TaskIds : hpc_enter(t, 101)
    \/ \E t \in TaskIds : \E ok_save, ok_mail \in BOOLEAN :
          /\ hpc_body(t, ok_save, ok_mail)
          /\ Len(bookings') <= MaxBookings
          /\ Len(report_requests') <= MaxReports
    \/ \E t \in TaskIds : hpc_resume(t)

SpecRace == Init /\ [][NextRace]_vars

\* ------------------------------------------------------------------------
\* The session store on its own: its methods called in any order by one
\* user while the clock advances
\* ------------------------------------------------------------------------
StoreStates == {"service_selected", "ai_conversation"}

StoreContents == {TxtName, TxtEmail}

StoreData == [EmptyData EXCEPT !.service_type = "study", !.language = "en"]

NextStore ==
    \/ \E state \in StoreStates : store_set_state(101, state, StoreData)
    \/ store_get_state(101)
    \/ store_clear_state(101)
    \/ \E role \in {"user", "assistant"}, content \in StoreContents :
            /\ Len(user_conversations[101]) < MaxStoreTurns
            /\ store_add_message(101, role, content)
    \/ handle_stop_ai_get_report(101) /\ UNCHANGED tasks
    \/ handle_detailed_report(101) /\ UNCHANGED tasks
    \/ Tick

SpecStore == Init /\ [][NextStore]_vars

\* ------------------------------------------------------------------------
\* SpecWindow: turns added to the buffers of two users, and the buffers
\* cleared; the k-th turn added since the last clear is a text of k letters
\* ------------------------------------------------------------------------
TurnText(k) == [i \in 1..k |-> "x"]

TurnRole(k) == IF k % 2 = 1 THEN "user" ELSE "assistant"

\* the number of the turn added last (0 for an empty buffer)
LastTurn(uc, u) == IF uc[u] = <<>> THEN 0 ELSE Len(uc[u][Len(uc[u])].content)

window_add(u) ==
    /\ LastTurn(user_conversations, u) < MaxTurns
    /\ store_add_message(u, TurnRole(LastTurn(user_conversations, u) + 1),
                         TurnText(LastTurn(user_conversations, u) + 1))

NextWindow ==
    \E u \in Users :
        \/ window_add(u)
        \/ store_clear_state(u)

SpecWindow == Init /\ [][NextWindow]_vars

\* ------------------------------------------------------------------------
\* SpecRouter: one user in the AI branch receiving buttons of the booking and
\* payment branches (pressed on earlier messages) and a token no branch of
\* button_handler knows
\* ------------------------------------------------------------------------
ForeignTokens ==
    {<<"time", TheDate, "10:00">>, <<"payment", "stripe">>}

RouterTokens ==
    {<<"country", "germany">>, <<"ai", "start">>, <<"noop">>} \cup ForeignTokens

NextRouter == Router({101}, RouterTokens, AiTexts, MaxAiSessions)

SpecRouter == Init /\ [][NextRouter]_vars

\* ------------------------------------------------------------------------
\* SpecValidate: two users at the three prompts that validate a text (the
\* address of a paid order, the address of a free report, the amount of the
\* currency converter), sending well-formed and malformed texts
\* ------------------------------------------------------------------------
ValidateTokens ==
    {<<"detailed", "report">>, <<"stop", "ai", "get", "report">>, <<"ess", "currency">>}

ValidateTexts == {TxtName, TxtEmail, TxtNoDot, TxtZero, TxtNan}

NextValidate == Router(Users, ValidateTokens, ValidateTexts, MaxAiSessions)

SpecValidate == Init /\ [][NextValidate]_vars

\* ------------------------------------------------------------------------
\* SpecCurrency: one user moving through the AI branch, the paid-report
\* prompts and the converter's amount prompt, sending conversion requests
\* and other texts at every point
\* ------------------------------------------------------------------------
CurrencyTokens ==
    {<<"country", "germany">>, <<"ai", "start">>, <<"stop", "ai", "get", "report">>,
     <<"detailed", "report">>, <<"ess", "currency">>}

UnsupportedTexts == {TxtConvertUnknown, TxtConvertUnknownTarget}

PatternTexts == {TxtConvert} \cup UnsupportedTexts

CurrencyTexts == PatternTexts \cup {TxtName}

NextCurrency == Router({101}, CurrencyTokens, CurrencyTexts, MaxAiSessions)

SpecCurrency == Init /\ [][NextCurrency]_vars

\* ------------------------------------------------------------------------
\* SpecLang: two users choosing languages, opening and restarting sessions,
\* while the clock advances
\* ------------------------------------------------------------------------
LangSelections == {<<"lang", "ar">>, <<"lang", "en">>}

LangTokens ==
    LangSelections \cup {<<"country", "germany">>, <<"detailed", "report">>,
                         <<"change", "lang">>}

NextLang ==
    \/ Router(Users, LangTokens, {TxtName}, MaxAiSessions)
    \/ \E u \in Users : store_clear_state(u)
    \/ Tick

SpecLang == Init /\ [][NextLang]_vars

\* ------------------------------------------------------------------------
\* SpecIsolation: the events of two users interleaved: service, country and
\* AI conversation, with the store refusing writes and ai_start raising for
\* a session that has no country yet
\* ------------------------------------------------------------------------
IsolationTokens ==
    {<<"service", "study">>, <<"country", "germany">>, <<"ai", "start">>}

NextIsolation == Router(Users, IsolationTokens, {TxtEmail}, MaxAiSessions)

SpecIsolation == Init /\ [][NextIsolation]_vars

\* ------------------------------------------------------------------------
\* SpecCalendar: the program is started on a day of the second half of
\* December (two weeks of start days, the scans running into January);
\* get_available_dates is called for every length of the scan, and a user
\* opens the calendar in either language
\* ------------------------------------------------------------------------
CalendarTokens == {<<"consultation">>, <<"lang", "ar">>}

InitCalendar ==
    /\ user_states = [u \in Users |-> NoEntry]
    /\ user_conversations = [u \in Users |-> <<>>]
    /\ user_languages = [u \in Users |-> "unset"]
    /\ now \in {24 * d : d \in MinDays..MaxDays}
    /\ bookings = <<>>
    /\ report_requests = <<>>
    /\ ai_sessions = <<>>
    /\ last = Obs(0, "none", "none", <<>>, FALSE, {})
    /\ tasks = [t \in TaskIds |-> IdleTask]

NextCalendar ==
    \/ \E days_ahead \in 0..MaxDaysAhead : call_get_available_dates(days_ahead)
    \/ \E tok \in CalendarTokens : button_handler(101, tok) /\ UNCHANGED tasks

SpecCalendar == InitCalendar /\ [][NextCalendar]_vars

\* ------------------------------------------------------------------------
\* SpecRender: user 101 goes through the consultation checkout for the
\* 10:00 slot and commits it, while user 202 opens the calendar, renders
\* the slots of the same date and presses the button of a booked slot
\* ------------------------------------------------------------------------
BookedTokens == {<<"booked", TheDate, "10:00">>}

RenderTokens == {<<"consultation">>, <<"date", TheDate>>} \cup BookedTokens

NextRender ==
    \/ Router({101}, RenderTokens \cup {<<"time", TheDate, "10:00">>, <<"payment", "stripe">>}, CommitTexts, MaxAiSessions)
    \/ Commit({101})
    \/ \E tok \in RenderTokens : button_handler(202, tok) /\ UNCHANGED tasks

SpecRender == Init /\ [][NextRender]_vars

\* ------------------------------------------------------------------------
\* SpecClosed: user 101 goes through the consultation checkout for the
\* 10:00 slot and commits it, while user 202 renders the slots of the same
\* date, the store answering or not, and presses any button of a slot shown
\* as booked
\* ------------------------------------------------------------------------
ClosedTokens == {<<"booked", TheDate, AVAILABLE_TIMES[i]>> : i \in 1..Len(AVAILABLE_TIMES)}

NextClosed ==
    \/ Router({101}, {<<"consultation">>, <<"date", TheDate>>, <<"time", TheDate, "10:00">>, <<"payment", "stripe">>}, CommitTexts, MaxAiSessions)
    \/ Commit({101})
    \/ \E tok \in {<<"consultation">>, <<"date", TheDate>>} \cup ClosedTokens : button_handler(202, tok) /\ UNCHANGED tasks

SpecClosed == Init /\ [][NextClosed]_vars

\* ------------------------------------------------------------------------
\* SpecAiRace: one user opens the AI conversation, then up to two of the
\* user's messages are in flight at once, their coroutines resumed in any
\* order.  Buttons are handled only while no message is in flight, and the
\* buffer is never cleared.
\* ------------------------------------------------------------------------
NextAiRace ==
    \/ \E tok \in {<<"country", "germany">>, <<"ai", "start">>} :
          AllIdle /\ button_handler(101, tok) /\ UNCHANGED tasks
    \/ \E t \in TaskIds : \E txt \in AiTexts : \E ok_create, ok_mark, ok_admin \in BOOLEAN :
          /\ hac_enter(t, 101, txt, ok_create, ok_mark, ok_admin)
          /\ Len(ai_sessions') <= MaxAiSessionsWide
    \/ \E t \in TaskIds : \E ok_update \in BOOLEAN : hac_resume(t, ok_update)

SpecAiRace == Init /\ [][NextAiRace]_vars

\* ------------------------------------------------------------------------
\* SpecReplace: set_state called with payloads of different shapes, and the
\* name step (handle_collect_info) run on whatever session that left
\* ------------------------------------------------------------------------
ReplaceStates == {"collect_info_report", "collect_info_consultation", "service_selected"}

\* a payload of the consultation flow after the slot, the address and the
\* payment method were chosen
BookedData ==
    [EmptyData EXCEPT !.service_type = "work", !.country = "germany",
                      !.language = "ar", !.email = TxtEmail,
                      !.payment_method = "stripe",
                      !.selected_date = TheDate, !.selected_time = "10:00"]

ReplaceData == {EmptyData, StoreData, BookedData}

NextReplace ==
    \/ \E state \in ReplaceStates, data \in ReplaceData :
            store_set_state(101, state, data)
    \/ store_get_state(101)
    \/ \E txt \in {TxtName, TxtEmail} : handle_user_input(101, txt) /\ UNCHANGED tasks
    \/ Tick

SpecReplace == Init /\ [][NextReplace]_vars

\* ------------------------------------------------------------------------
\* SpecTTL: the AI conversation of one user while the clock advances
\* ------------------------------------------------------------------------
TtlTokens ==
    {<<"country", "germany">>, <<"ai", "start">>, <<"stop", "ai", "get", "report">>}

NextTTL ==
    \/ Router({101}, TtlTokens, AiTexts, MaxAiSessions)
    \/ Tick

SpecTTL == Init /\ [][NextTTL]_vars

\* ========================================================================
\* Claims
\* ========================================================================
NonCancelledAt(date, time) ==
    {i \in Indices(bookings) : /\ bookings[i].booking_date = date
                               /\ bookings[i].booking_time = time
                               /\ bookings[i].status # "cancelled"}

Slots == {TheDate} \X {AVAILABLE_TIMES[i] : i \in 1..Len(AVAILABLE_TIMES)}

PaymentPending(u) ==
    LET state == get_state(user_states, u)
    IN  /\ state.present
        /\ state.state = "payment_pending"
        /\ state.data.name # NoneText
        /\ state.data.email # NoneText
        /\ state.data.payment_method \in {"stripe", "paypal"}

Records == Len(bookings) + Len(report_requests)

\* C2: when a user whose session is payment_pending presses 'I Paid'
\* (button_handler receives the token payment_confirmed), a booking or a
\* report-request record is inserted while the event is handled and the
\* session is then cleared.
C2_IPaidCommits ==
    [][\A u \in Users :
          (PaymentPending(u) /\ button_handler(u, <<"payment", "confirmed">>))
          => /\ Len(bookings') + Len(report_requests') = Records + 1
             /\ ~user_states'[u].present]_vars

\* C3: for every (date, time), while a non-cancelled booking exists for the
\* slot check_slot_available returns false (whatever the store answers), and
\* it returns true only when no non-cancelled booking exists for exactly
\* that pair; the slot keyboard of handle_date_selection, which asks it once
\* per slot, offers no slot that holds a non-cancelled booking.
C3_SlotUnavailableWhileBooked ==
    \A slot \in Slots : \A ok \in BOOLEAN :
        /\ NonCancelledAt(slot[1], slot[2]) # {}
              => ~check_slot_available(bookings, slot[1], slot[2], ok)
        /\ check_slot_available(bookings, slot[1], slot[2], ok)
              => NonCancelledAt(slot[1], slot[2]) = {}
        /\ last.handler = "handle_date_selection"
              => \A i \in 1..Len(last.keyboard) :
                    LET booked == NonCancelledAt(slot[1], last.keyboard[i].time) # {}
                    IN  /\ booked => last.keyboard[i].callback = "booked"
                        /\ last.keyboard[i].callback = "time" => ~booked

\* C3 witness: the slot was booked, cancelled and booked again, and the
\* keyboard rendered then shows it booked and the next slot free
C3_Witness ==
    /\ \E i \in Indices(bookings) : /\ bookings[i].booking_time = "10:00"
                                    /\ bookings[i].status = "cancelled"
    /\ NonCancelledAt(TheDate, "10:00") # {}
    /\ ~check_slot_available(bookings, TheDate, "10:00", TRUE)
    /\ last.handler = "handle_date_selection"
    /\ last.keyboard[1].callback = "booked"
    /\ last.keyboard[2].callback = "time"

CommitStep(u) ==
    \E ok_save, ok_mail \in BOOLEAN : handle_payment_confirmed(u, ok_save, ok_mail)

CommitSucceeded(obs) ==
    /\ obs.handler = "handle_payment_confirmed"
    /\ obs.reply \in {"booking_confirmed", "report_confirmed"}

\* C4: a commit that succeeds inserts one record and clears the session, and
\* a commit event handled when the user has no session replies 'session
\* expired' and inserts nothing: one checkout is committed once.
C4_CommitOnce ==
    [][\A u \in Users :
          CommitStep(u) =>
             /\ CommitSucceeded(last')
                   => /\ ~user_states'[u].present
                      /\ user_conversations'[u] = <<>>
                      /\ Len(bookings') + Len(report_requests') = Records + 1
             /\ ~get_state(user_states, u).present
                   => /\ last'.reply = "session_expired"
                      /\ bookings' = bookings
                      /\ report_requests' = report_requests]_vars

\* C4 witness: a record is stored and the commit event handled last found
\* no session
C4_Witness ==
    /\ last.handler = "handle_payment_confirmed"
    /\ last.reply = "session_expired"
    /\ Records = 1
    /\ ~user_states[last.user].present

\* C5: when the insert of handle_payment_confirmed fails, no record is
\* stored, no mail is sent, the reply is the generic failure message, and
\* the user's session entry and conversation buffer are as before the event.
C5_FailedCommitKeepsSession ==
    [][\A u \in Users : \A ok_mail \in BOOLEAN :
          (/\ get_state(user_states, u).present
           /\ handle_payment_confirmed(u, FALSE, ok_mail))
          => /\ bookings' = bookings
             /\ report_requests' = report_requests
             /\ last'.emails = <<>>
             /\ last'.reply = "commit_failed"
             /\ user_states'[u] = user_states[u]
             /\ user_conversations'[u] = user_conversations[u]]_vars

\* C5 witness: a commit of a complete checkout failed and left it pending
C5_Witness ==
    /\ last.handler = "handle_payment_confirmed"
    /\ last.reply = "commit_failed"
    /\ last.writes = {}
    /\ PaymentPending(last.user)

AiQuestion(u, txt, ok_create, ok_mark, ok_update) ==
    /\ TextBranch(u, txt) = "handle_ai_conversation"
    /\ \E ok_admin \in BOOLEAN :
          handle_ai_conversation(u, txt, ok_create, ok_mark, ok_update, ok_admin)

\* C7: the buffer never holds more than 5 user turns, and a question sent
\* when it holds 5 requests no completion and adds no turn.
C7_QuestionCap ==
    [][\A u \in Users :
          /\ get_question_count(user_conversations', u) <= MAX_AI_QUESTIONS
          /\ \A txt \in AiTexts : \A ok_create, ok_mark, ok_update \in BOOLEAN :
                (/\ get_question_count(user_conversations, u) >= MAX_AI_QUESTIONS
                 /\ AiQuestion(u, txt, ok_create, ok_mark, ok_update))
                => /\ ~last'.completion
                   /\ last'.reply = "questions_finished"
                   /\ user_conversations' = user_conversations]_vars

\* C7 witness: a sixth question was refused with five user turns recorded
C7_Witness ==
    /\ last.handler = "handle_ai_conversation"
    /\ last.reply = "questions_finished"
    /\ ~last.completion
    /\ get_question_count(user_conversations, last.user) = MAX_AI_QUESTIONS

\* C8: when the answer to a question brings the user's turns to the cap, the
\* AI session is marked completed by that same event, with no further user
\* message, and the session state is not cleared.
C8_CapCompletesSession ==
    [][\A u \in Users : \A txt \in AiTexts :
          (/\ AiQuestion(u, txt, TRUE, TRUE, TRUE)
           /\ last'.completion
           /\ get_question_count(user_conversations', u) = MAX_AI_QUESTIONS)
          => /\ OpenSessions(ai_sessions', u) = {}
             /\ user_states'[u].present]_vars

\* C9: in every reachable state each user has at most one AI-session row
\* that is not completed.
C9_OneOpenSession ==
    \A u \in Users : Cardinality(OpenSessions(ai_sessions, u)) <= 1

\* C10: a question that is answered while the user has no open AI-session
\* row leaves an open row for that user.  Stated for the store accepting
\* every write of the event, and for a user whose earlier row it did store
\* (so that no store failure is involved).
C10_QuestionOpensSession ==
    [][\A u \in Users : \A txt \in AiTexts :
          (/\ OpenSessions(ai_sessions, u) = {}
           /\ \E i \in Indices(ai_sessions) : ai_sessions[i].user_id = u
           /\ AiQuestion(u, txt, TRUE, TRUE, TRUE)
           /\ last'.completion)
          => OpenSessions(ai_sessions', u) # {}]_vars

\* C11: get_state on an entry more than one hour old returns no session and
\* deletes the entry; on an entry at most one hour old it returns the entry,
\* state and payload as stored, and leaves the store as it is.
C11_GetStateTtl ==
    [][\A u \in Users :
          (user_states[u].present /\ store_get_state(u))
          => IF now - user_states[u].timestamp > TTL_HOURS
             THEN /\ get_state(user_states, u) = NoEntry
                  /\ last'.reply = "no_session"
                  /\ ~user_states'[u].present
             ELSE /\ get_state(user_states, u) = user_states[u]
                  /\ last'.reply = "session"
                  /\ user_states'[u] = user_states[u]]_vars

\* C11 witness: a read found the entry too old and purged it
C11_Witness ==
    /\ last.handler = "get_state"
    /\ last.reply = "no_session"
    /\ "user_states" \in last.writes
    /\ ~user_states[last.user].present

\* C12: every handled event of a user refreshes the timestamp used for the
\* TTL eviction; in particular, after a text message of the user has been
\* answered in ai_conversation, the user's session carries the current time.
C12_EventRefreshesTimestamp ==
    [][\A u \in Users :
          (/\ \E txt \in AiTexts : handle_user_input(u, txt)
           /\ last'.handler = "handle_ai_conversation"
           /\ user_states'[u].present)
          => user_states'[u].timestamp = now]_vars

\* C13: the buffer never holds more than 10 turns, its turns are consecutive
\* insertions in insertion order, the turn just added is its last one, and
\* adding to a full buffer drops the oldest turn and nothing else.
C13_SlidingWindow ==
    /\ [](\A u \in Users :
            LET b == user_conversations[u]
            IN  /\ Len(b) <= CONVERSATION_WINDOW
                /\ \A i \in 1..(Len(b) - 1) :
                       Len(b[i + 1].content) = Len(b[i].content) + 1)
    /\ [][\A u \in Users :
            window_add(u)
            => LET b    == user_conversations[u]
                   b2   == user_conversations'[u]
                   k    == LastTurn(user_conversations, u) + 1
                   kept == SubSeq(b2, 1, Len(b2) - 1)
               IN  /\ b2 # <<>>
                   /\ b2[Len(b2)] = [role |-> TurnRole(k), content |-> TurnText(k)]
                   /\ kept = IF Len(b) < CONVERSATION_WINDOW THEN b ELSE Tail(b)]_vars

\* C13 witness: an eleventh turn was added, the buffer holds turns 2 to 11
C13_Witness ==
    /\ last.handler = "add_conversation_message"
    /\ Len(user_conversations[last.user]) = CONVERSATION_WINDOW
    /\ user_conversations[last.user][1].content = TurnText(2)
    /\ user_conversations[last.user][CONVERSATION_WINDOW].content =
           TurnText(CONVERSATION_WINDOW + 1)

\* C14: once the free-report pipeline has cleared the session (a valid
\* address was handled), get_state returns no session for the user and the
\* user's conversation buffer is empty, so the question count is 0.
C14_ClearedMeansGone ==
    [][\A u \in Users :
          (/\ \E txt \in AiTexts : handle_user_input(u, txt)
           /\ last'.handler = "handle_collect_email_free_report"
           /\ last'.reply \in {"report_sent", "report_failed"})
          => /\ ~get_state(user_states', u).present
             /\ user_conversations'[u] = <<>>
             /\ get_question_count(user_conversations', u) = 0]_vars

\* C15: the conversation snapshot stored in a state payload by
\* handle_detailed_report or handle_stop_ai_get_report is a value copy: an
\* add_conversation_message or a clear_state for the user leaves the
\* contents of a snapshot that is still stored as they were.
C15_SnapshotIsValueCopy ==
    [][\A u \in Users :
          (/\ user_states[u].present
           /\ user_states[u].state \in {"collect_info_report", "collect_email_free_report"}
           /\ \/ \E role \in {"user", "assistant"}, content \in StoreContents :
                     store_add_message(u, role, content)
              \/ store_clear_state(u)
           /\ user_states'[u].present)
          => user_states'[u].data.conversation = user_states[u].data.conversation]_vars

\* the free-report pipeline ran to its closing reply in the step just taken
FreeReportRan(u) ==
    /\ \E txt \in AiTexts : handle_user_input(u, txt)
    /\ last'.handler = "handle_collect_email_free_report"
    /\ last'.reply \in {"report_sent", "report_failed"}

MailCount(emails, type) == Cardinality({i \in 1..Len(emails) : emails[i].type = type})

\* C16: a run of the free-report pipeline attempts the user's report mail
\* once and the operator notification once and leaves the state in which the
\* pipeline runs; a text message handled in any other state sends neither.
C16_MailsOncePerRequest ==
    [][\A u \in Users :
          /\ FreeReportRan(u)
             => /\ MailCount(last'.emails, "Free AI Conversation Report") = 1
                /\ MailCount(last'.emails, "free_report_requested") = 1
                /\ Len(last'.emails) = 2
                /\ SessionTag(user_states', u) # "collect_email_free_report"
          /\ (/\ \E txt \in AiTexts : handle_user_input(u, txt)
              /\ SessionTag(user_states, u) # "collect_email_free_report")
             => /\ MailCount(last'.emails, "Free AI Conversation Report") = 0
                /\ MailCount(last'.emails, "free_report_requested") = 0
                /\ last'.handler # "handle_collect_email_free_report"]_vars

\* C16 witness: the pipeline has run and a later text of the user was
\* answered with the main menu
C16_Witness ==
    /\ last.handler = "show_main_menu_message"
    /\ user_states[last.user].present
    /\ user_states[last.user].state = None
    /\ \E i \in Indices(ai_sessions) :
           ai_sessions[i].user_id = last.user /\ ai_sessions[i].report_requested

LogIndex(log, step) == CHOOSE i \in 1..Len(log) : log[i].step = step

\* C17: in a run of the free-report pipeline the reset of the session comes
\* after both marking calls, which still find the state that collects the
\* address, and before the transcript is formatted and the operator
\* notification and the user's mail are attempted, which find it reset.
C17_ResetBetweenMarkAndMail ==
    [][\A u \in Users :
          FreeReportRan(u)
          => LET log == last'.log
                 Steps == {log[i].step : i \in 1..Len(log)}
             IN  /\ {"mark_report_requested", "mark_session_completed", "set_state",
                     "summary", "send_admin_notification", "send_email_report"}
                        \subseteq Steps
                 /\ \A before \in {"mark_report_requested", "mark_session_completed"} :
                        /\ LogIndex(log, before) < LogIndex(log, "set_state")
                        /\ log[LogIndex(log, before)].state = "collect_email_free_report"
                 /\ \A after \in {"summary", "send_admin_notification",
                                  "send_email_report"} :
                        /\ LogIndex(log, "set_state") < LogIndex(log, after)
                        /\ log[LogIndex(log, after)].state # "collect_email_free_report"]_vars

\* C17 witness: a run of the pipeline whose marking calls changed the AI
\* session and whose user mail was attempted
C17_Witness ==
    /\ last.handler = "handle_collect_email_free_report"
    /\ Len(last.log) = Len(FREE_REPORT_STEPS)
    /\ "ai_sessions" \in last.writes
    /\ MailCount(last.emails, "Free AI Conversation Report") = 1
    /\ user_states[last.user].state = None

\* C18: when the pipeline handles a valid address and every write to
\* ai_sessions succeeds, the user's latest AI-session row, the one the
\* reported conversation was recorded in, ends with report_requested set,
\* report_email equal to the address and completed set, and every other row
\* is left as it was.
C18_OriginatingRowMarked ==
    [][\A u \in Users : \A txt \in AiTexts :
          (/\ TextBranch(u, txt) = "handle_collect_email_free_report"
           /\ ~InvalidEmail(txt)
           /\ \E ok_admin, ok_mail \in BOOLEAN :
                 handle_collect_email_free_report(u, txt, TRUE, TRUE, ok_admin, ok_mail)
           /\ \E i \in Indices(ai_sessions) : ai_sessions[i].user_id = u)
          => LET r == Max({i \in Indices(ai_sessions) : ai_sessions[i].user_id = u})
             IN  /\ ai_sessions'[r].report_requested
                 /\ ai_sessions'[r].report_email = txt
                 /\ ai_sessions'[r].completed
                 /\ \A j \in Indices(ai_sessions) \ {r} :
                        ai_sessions'[j] = ai_sessions[j]]_vars

\* C19: a run of the free-report pipeline in which a marking call or the
\* operator notification fails still resets the session, still attempts the
\* user's mail and still ends with the result message.
C19_FailuresDoNotAbort ==
    [][\A u \in Users : \A txt \in AiTexts :
       \A ok_req, ok_done, ok_admin, ok_mail \in BOOLEAN :
          (/\ TextBranch(u, txt) = "handle_collect_email_free_report"
           /\ ~InvalidEmail(txt)
           /\ ~(ok_req /\ ok_done /\ ok_admin)
           /\ handle_collect_email_free_report(u, txt, ok_req, ok_done, ok_admin, ok_mail))
          => /\ SessionTag(user_states', u) = None
             /\ MailCount(last'.emails, "Free AI Conversation Report") = 1
             /\ last'.emails[Len(last'.emails)] =
                    Mail("Free AI Conversation Report", txt, ok_mail)
             /\ last'.reply = IF ok_mail THEN "report_sent" ELSE "report_failed"]_vars

\* C19 witness: both marking calls and the operator notification failed (the
\* user's row is still open, the notification was refused) and the report
\* was mailed all the same
C19_Witness ==
    /\ last.handler = "handle_collect_email_free_report"
    /\ OpenSessions(ai_sessions, last.user) # {}
    /\ Len(last.emails) = 2
    /\ ~last.emails[1].ok
    /\ last.emails[2].ok
    /\ last.reply = "report_sent"
    /\ SessionTag(user_states, last.user) = None

\* C20: the free-report pipeline tells the user the report was sent exactly
\* when send_email_report answered success for the user's mail; when it
\* answered failure the user gets the delivery-failure message, whether or
\* not the operator notification went out.
C20_ReplyFollowsUserMail ==
    [][\A u \in Users : \A txt \in AiTexts :
       \A ok_req, ok_done, ok_admin, ok_mail \in BOOLEAN :
          (/\ TextBranch(u, txt) = "handle_collect_email_free_report"
           /\ ~InvalidEmail(txt)
           /\ handle_collect_email_free_report(u, txt, ok_req, ok_done, ok_admin, ok_mail))
          => /\ (last'.reply = "report_sent") <=> ok_mail
             /\ ~ok_mail => last'.reply = "report_failed"
             /\ \E i \in 1..Len(last'.emails) :
                    last'.emails[i] = Mail("Free AI Conversation Report", txt, ok_mail)]_vars

\* C20 witness: the operator notification went out, the user's mail did not,
\* and the user was shown the delivery-failure message
C20_Witness ==
    /\ last.handler = "handle_collect_email_free_report"
    /\ last.reply = "report_failed"
    /\ Len(last.emails) = 2
    /\ last.emails[1].type = "free_report_requested" /\ last.emails[1].ok
    /\ last.emails[2].type = "Free AI Conversation Report" /\ ~last.emails[2].ok

\* C21: a commit of a paid report for a session whose conversation snapshot
\* is empty stores a report request whose conversation_summary is the fixed
\* placeholder text, not an empty value.
C21_PlaceholderSummary ==
    [][\A u \in Users :
          (/\ CommitStep(u)
           /\ get_state(user_states, u).present
           /\ get_state(user_states, u).data.conversation = <<>>
           /\ Len(report_requests') = Len(report_requests) + 1)
          => LET row == report_requests'[Len(report_requests')]
             IN  /\ row.user_id = u
                 /\ row.conversation_summary # <<>>
                 /\ row.conversation_summary =
                        <<[label |-> PLACEHOLDER_SUMMARY, content |-> <<>>]>>]_vars

\* C21 witness: a report was committed and its stored summary is the placeholder
C21_Witness ==
    /\ last.handler = "handle_payment_confirmed"
    /\ last.reply = "report_confirmed"
    /\ report_requests # <<>>
    /\ report_requests[Len(report_requests)].user_id = last.user
    /\ report_requests[Len(report_requests)].conversation_summary[1].label =
           PLACEHOLDER_SUMMARY

\* C22: a button for which the current state defines no transition leaves
\* the session as it is and is answered with the generic reply; stated for a
\* time-slot or a payment-method button arriving in ai_conversation.
C22_UnmatchedLeavesSession ==
    [][\A u \in Users : \A tok \in ForeignTokens :
          (/\ get_state(user_states, u).present
           /\ get_state(user_states, u).state = "ai_conversation"
           /\ button_handler(u, tok))
          => /\ user_states'[u].state = user_states[u].state
             /\ user_states'[u].data = user_states[u].data
             /\ last'.reply \in {"unknown", "session_expired"}]_vars

\* the user has no entry in the store, or one more than an hour old
NoLiveSession(u) ==
    \/ ~user_states[u].present
    \/ now - user_states[u].timestamp > TTL_HOURS

\* C23: a text that is not a currency request, from a user without a live
\* session (none stored, or the stored one expired), is answered with the
\* top-level menu, writes no table, sends no mail and creates no session.
C23_NoSessionTextShowsMenu ==
    [][\A u \in Users : \A txt \in CheckoutTexts :
          (/\ ~CurrencyParse(txt).match
           /\ NoLiveSession(u)
           /\ handle_user_input(u, txt))
          => /\ last'.handler = "show_main_menu_message"
             /\ last'.reply = "main_menu"
             /\ last'.writes = {} /\ last'.emails = <<>>
             /\ bookings' = bookings /\ report_requests' = report_requests
             /\ ai_sessions' = ai_sessions
             /\ user_conversations' = user_conversations
             /\ ~user_states'[u].present]_vars

\* C23 witness: the menu was shown to a user who has no session, after the
\* clock had run past the TTL
C23_Witness ==
    /\ last.handler = "show_main_menu_message"
    /\ ~user_states[last.user].present
    /\ now > TTL_HOURS

\* a text that is not a positive decimal number (commas and outer blanks apart)
InvalidAmount(txt) ==
    LET s == RemoveCommas(Strip(txt))
        body == IF s # <<>> /\ s[1] \in {"+", "-"} THEN Tail(s) ELSE s
    IN  \/ ~DecimalForm(body)
        \/ s[1] = "-"
        \/ (NumberValue(body).whole = 0 /\ NumberValue(body).frac = <<>>)

\* C24: an address without '@' or '.' at either address prompt, and a text
\* that is not a positive number at the amount prompt, write no table, send
\* no mail and leave the session's state tag and payload as they were.
C24_InvalidInputKeepsState ==
    [][\A u \in Users : \A txt \in ValidateTexts :
          (/\ ~CurrencyParse(txt).match
           /\ LET state == get_state(user_states, u)
              IN  /\ state.present
                  /\ \/ /\ state.state \in {"collect_email", "collect_email_free_report"}
                        /\ InvalidEmail(txt)
                     \/ /\ state.state = "currency_waiting_amount"
                        /\ InvalidAmount(txt)
           /\ handle_user_input(u, txt))
          => /\ user_states'[u].state = user_states[u].state
             /\ user_states'[u].data = user_states[u].data
             /\ last'.writes = {} /\ last'.emails = <<>>
             /\ bookings' = bookings /\ report_requests' = report_requests
             /\ ai_sessions' = ai_sessions]_vars

\* C25: a text of the form number, code, code (in any case) is answered as a
\* currency conversion whatever the dialog state, by no state handler, and
\* leaves the session store, the conversation buffer and the tables as they
\* were.
C25_CurrencyTextPreempts ==
    [][\A u \in Users : \A txt \in PatternTexts :
          handle_user_input(u, txt)
          => /\ last'.handler = "currency_text"
             /\ last'.reply \in {"conversion", "conversion_error", "currency_not_supported"}
             /\ last'.emails = <<>> /\ ~last'.completion
             /\ user_states' = user_states
             /\ user_conversations' = user_conversations
             /\ bookings' = bookings /\ report_requests' = report_requests
             /\ ai_sessions' = ai_sessions]_vars

\* C25 witness: a conversion request typed in lower case was answered in the
\* middle of an AI conversation, which is still in place
C25_Witness ==
    /\ last.handler = "currency_text"
    /\ last.reply = "conversion"
    /\ user_states[last.user].present
    /\ user_states[last.user].state = "ai_conversation"
    /\ get_question_count(user_conversations, last.user) > 0

C27_LanguageSticky ==
    /\ [](\A u \in Users :
            user_languages[u] = "unset" => get_user_language(user_languages, u) = "en")
    /\ [][\A u \in Users :
            IF \E tok \in LangSelections : button_handler(u, tok)
            THEN \E tok \in LangSelections :
                    /\ button_handler(u, tok)
                    /\ get_user_language(user_languages', u) = tok[2]
            ELSE get_user_language(user_languages', u) =
                     get_user_language(user_languages, u)]_vars

\* C27 witness: the user chose Arabic, the session that followed was cleared
\* by /start after the clock had advanced, and the language is still Arabic
C27_Witness ==
    /\ last.handler = "start"
    /\ now > TTL_HOURS
    /\ ~user_states[last.user].present
    /\ get_user_language(user_languages, last.user) = "ar"

\* an event of user u was handled in the step
EventOf(u) ==
    \/ start(u)
    \/ \E tok \in IsolationTokens : button_handler(u, tok)
    \/ \E txt \in {TxtEmail} : handle_user_input(u, txt)

\* C28: handling an event of a user, also one whose handler raises, leaves
\* the session, the conversation buffer and the language of every other
\* user as they were, however the events of the users are interleaved.
C28_OtherUsersUntouched ==
    [][\A u \in Users :
          EventOf(u)
          => \A v \in Users \ {u} :
                /\ user_states'[v] = user_states[v]
                /\ user_conversations'[v] = user_conversations[v]
                /\ user_languages'[v] = user_languages[v]]_vars

\* C28 witness: the handler of one user's event raised while the other user
\* was in the middle of an AI conversation
C28_Witness ==
    /\ last.reply = "error"
    /\ \E v \in Users \ {last.user} :
          /\ user_states[v].present
          /\ user_states[v].state = "ai_conversation"
          /\ user_conversations[v] # <<>>

\* C29: set_state replaces the session of the user completely: the read that
\* follows returns the tag and the payload that were passed, whatever the old
\* payload held; and the name step, which builds its payload from the old
\* one, carries over exactly the keys it copies (language, country, service
\* type, conversation, and the slot for a consultation) and nothing else.
C29_SetStateReplaces ==
    [][/\ \A state \in ReplaceStates, data \in ReplaceData :
             store_set_state(101, state, data)
             => /\ get_state(user_states', 101).present
                /\ get_state(user_states', 101).state = state
                /\ get_state(user_states', 101).data = data
       /\ \A txt \in {TxtName, TxtEmail} :
             handle_user_input(101, txt) /\ last'.handler = "handle_collect_info"
             => LET old == user_states[101].data
                    new == get_state(user_states', 101).data
                    consultation == user_states[101].state = "collect_info_consultation"
                IN  /\ get_state(user_states', 101).state = "collect_email"
                    /\ new.name = txt
                    /\ new.order_type = IF consultation THEN "consultation" ELSE "report"
                    /\ new.language = GetOr(old.language, "en")
                    /\ new.country = GetOr(old.country, "")
                    /\ new.service_type = GetOr(old.service_type, "study")
                    /\ new.conversation = old.conversation
                    /\ new.selected_date = IF consultation THEN old.selected_date ELSE None
                    /\ new.selected_time = IF consultation THEN old.selected_time ELSE None
                    /\ new.email = NoneText
                    /\ new.payment_method = None
                    /\ new.amount = NoAmount
                    /\ new.from_currency = None
                    /\ new.cv_type = None
                    /\ new.questions_asked = -1]_vars

\* the name step has run on a report session and left a payload without the
\* slot, the address and the payment method
C29_Witness ==
    /\ last.handler = "handle_collect_info"
    /\ user_states[101].present
    /\ user_states[101].state = "collect_email"
    /\ user_states[101].data.order_type = "report"
    /\ user_states[101].data.country = "germany"
    /\ user_states[101].data.selected_date = None
    /\ user_states[101].data.email = NoneText
    /\ user_states[101].data.payment_method = None
\* C30: after each answered question the user has an open AI-session row
\* whose question_count equals the number of user turns in the user's
\* conversation buffer, and that count is at most MAX_AI_QUESTIONS.  Stated
\* for the store accepting every write.
C30_CountPersisted ==
    [][\A txt \in AiTexts :
          (/\ handle_user_input_db(101, txt, {TRUE})
           /\ last'.handler = "handle_ai_conversation"
           /\ last'.reply = "ai_response")
          => /\ OpenSessions(ai_sessions', 101) # {}
             /\ ai_sessions'[LatestOpen(ai_sessions', 101)].question_count
                   = get_question_count(user_conversations', 101)
             /\ get_question_count(user_conversations', 101) <= MAX_AI_QUESTIONS]_vars
\* C31: get_available_dates(N) returns exactly the days among the N
\* consecutive calendar days starting today whose weekday is Monday to
\* Friday, in ascending order and without duplicates; the calendar keyboard
\* of handle_consultation shows those of the next 14 days in that order in
\* rows of 3 (the last row of dates may be shorter), then the back button.
C31_WeekdaysAscending ==
    [][/\ \A days_ahead \in 0..MaxDaysAhead :
             (/\ last'.handler = "get_available_dates"
              /\ last'.log = <<Pad2(days_ahead)>>
              /\ call_get_available_dates(days_ahead))
             => LET dates  == last'.keyboard
                    today  == Ordinal(current_date)
                    parsed == [i \in 1..Len(dates) |-> strptime(dates[i])]
                    offset == [i \in 1..Len(dates) |-> Ordinal(parsed[i]) - today]
                IN  /\ \A i \in 1..Len(dates) :
                          /\ strftime(parsed[i]) = dates[i]
                          /\ offset[i] \in 0..(days_ahead - 1)
                          /\ (START_WEEKDAY + Ordinal(parsed[i]) - START_ORDINAL) % 7 <= 4
                    /\ \A k \in 0..(days_ahead - 1) :
                          (START_WEEKDAY + today + k - START_ORDINAL) % 7 <= 4
                          => \E i \in 1..Len(dates) : offset[i] = k
                    /\ \A i, j \in 1..Len(dates) : i < j => offset[i] < offset[j]
       /\ \A tok \in CalendarTokens :
             (last'.handler = "handle_consultation" /\ button_handler(101, tok))
             => LET kb    == last'.keyboard
                    dates == get_available_dates(DAYS_AHEAD)
                    rows  == Len(kb) - 1
                IN  /\ rows >= 0
                    /\ kb[Len(kb)] = <<[display |-> <<"back">>,
                                        callback_data |-> <<"back", "services">>]>>
                    /\ \A r \in 1..rows :
                          /\ Len(kb[r]) \in 1..3
                          /\ r < rows => Len(kb[r]) = 3
                          /\ \A j \in 1..Len(kb[r]) :
                                /\ 3 * (r - 1) + j <= Len(dates)
                                /\ kb[r][j].callback_data
                                      = <<"date", dates[3 * (r - 1) + j]>>
                    /\ rows > 0 => 3 * (rows - 1) + Len(kb[rows]) = Len(dates)
                    /\ rows = 0 => Len(dates) = 0]_vars

\* the calendar was opened on a day late in December: ten dates in rows of
\* 3, 3, 3 and 1, the new year among them
C31_Witness ==
    /\ last.handler = "handle_consultation"
    /\ Len(last.keyboard) = 5
    /\ Len(last.keyboard[3]) = 3
    /\ Len(last.keyboard[4]) = 1
    /\ \E r \in 1..4 : \E j \in 1..Len(last.keyboard[r]) :
          last.keyboard[r][j].callback_data = <<"date", "2026-01-02">>
    /\ last.keyboard[1][1].callback_data[2] = strftime(current_date)
SlotHeld(u) ==
    /\ user_states[u].present
    /\ user_states[u].data.selected_date = TheDate
    /\ user_states[u].data.selected_time = "10:00"

\* C32: the slot keyboard lists the slots of AVAILABLE_TIMES in that order,
\* each offered if and only if check_slot_available answered true for it
\* during the render; with the store answering, a slot is shown open to any
\* user as long as no booking was committed for it, whatever slot another
\* user holds in a session; and pressing the button of a slot shown as
\* booked changes no session, buffer or table.
C32_RenderedAsChecked ==
    [][/\ \A u \in Users : \A oks \in OkPatterns :
             (/\ last'.handler = "handle_date_selection"
              /\ handle_date_selection(u, <<"date", TheDate>>, oks))
             => /\ Len(last'.keyboard) = Len(AVAILABLE_TIMES)
                /\ \A i \in 1..Len(AVAILABLE_TIMES) :
                      LET shown == last'.keyboard[i]
                          free  == check_slot_available(bookings, TheDate,
                                                        AVAILABLE_TIMES[i], oks[i])
                      IN  /\ shown.time = AVAILABLE_TIMES[i]
                          /\ shown.callback_data[1] = (IF free THEN "time" ELSE "booked")
                          /\ shown.callback_data[2] = TheDate
                          /\ shown.callback_data[3] = AVAILABLE_TIMES[i]
                          /\ (\A k \in 1..Len(AVAILABLE_TIMES) : oks[k])
                                => (shown.callback_data[1] = "time"
                                      <=> NonCancelledAt(TheDate, AVAILABLE_TIMES[i]) = {})
       /\ \A u \in Users : \A tok \in BookedTokens :
             button_handler(u, tok)
             => /\ user_states' = user_states
                /\ user_conversations' = user_conversations
                /\ bookings' = bookings
                /\ report_requests' = report_requests]_vars

\* user 101 holds the 10:00 slot in a checkout waiting for the payment, no
\* booking is committed, and the keyboard user 202 has just rendered
\* offers 10:00
C32_Witness ==
    /\ SlotHeld(101)
    /\ user_states[101].state = "payment_pending"
    /\ NonCancelledAt(TheDate, "10:00") = {}
    /\ last.handler = "handle_date_selection"
    /\ last.user = 202
    /\ last.keyboard[1].callback_data = <<"time", TheDate, "10:00">>
\* C33: a session in payment_pending holds a name and an address that
\* passed the '@' and '.' test, and for a consultation a date and a time.
C33_PaymentPendingComplete ==
    \A u \in Users :
        (user_states[u].present /\ user_states[u].state = "payment_pending")
        => LET data == user_states[u].data
           IN  /\ data.name # NoneText
               /\ data.email # NoneText
               /\ ~InvalidEmail(data.email)
               /\ data.order_type = "consultation"
                     => data.selected_date # None /\ data.selected_time # None
OFFERED_METHODS == {"stripe", "paypal"}

\* C34: the payment_method of a session payload, when the payload holds
\* one, and of every booking and report-request row is 'stripe' or 'paypal'.
C34_OfferedMethodsOnly ==
    /\ \A u \in Users :
          (user_states[u].present /\ user_states[u].data.payment_method # None)
          => user_states[u].data.payment_method \in OFFERED_METHODS
    /\ \A i \in Indices(bookings) : bookings[i].payment_method \in OFFERED_METHODS
    /\ \A i \in Indices(report_requests) :
          report_requests[i].payment_method \in OFFERED_METHODS
AssistantTurns(conv) == Cardinality({i \in 1..Len(conv) : conv[i].role = "assistant"})

\* C35: with messages of one user in ai_conversation handled concurrently
\* and the buffer never cleared, the buffer never holds more than 5 user
\* turns, no turn is ever evicted from it, every completion has added one
\* assistant turn after its user turn (so at most 5 completions are made),
\* and at most one AI-session row is created.
C35_ConcurrentQuestionsCapped ==
    /\ [](/\ get_question_count(user_conversations, 101) <= MAX_AI_QUESTIONS
          /\ AssistantTurns(user_conversations[101])
                <= get_question_count(user_conversations, 101)
          /\ Len(ai_sessions) <= 1)
    /\ [][/\ Len(user_conversations'[101]) >= Len(user_conversations[101])
          /\ SubSeq(user_conversations'[101], 1, Len(user_conversations[101]))
                = user_conversations[101]
          /\ last'.completion /\ last' # last
                => AssistantTurns(user_conversations'[101])
                     = AssistantTurns(user_conversations[101]) + 1]_vars

\* two messages are in flight, both past the cap test and waiting at
\* send_action, and the buffer holds its fifth user turn
C35_Witness ==
    /\ tasks[1].pc = "typing"
    /\ tasks[2].pc = "typing"
    /\ tasks[1].user = 101 /\ tasks[2].user = 101
    /\ get_question_count(user_conversations, 101) = MAX_AI_QUESTIONS
    /\ Len(ai_sessions) = 1
\* C36: a step in which get_state purges the expired session of a user
\* leaves that user's conversation buffer empty.
C36_ExpiryPurgesBuffer ==
    [][\A u \in Users :
          (Expired(user_states, u) /\ ~user_states'[u].present)
          => user_conversations'[u] = <<>>]_vars

\* C37: between two clears of a user's conversation buffer the question
\* count never decreases: a step either empties the buffer or keeps every
\* turn it held (the window evicts nothing during the AI flow), so the
\* number of user turns can only grow.
C37_QuestionCountMonotone ==
    [][\A u \in Users :
          \/ user_conversations'[u] = <<>>
          \/ /\ get_question_count(user_conversations', u)
                   >= get_question_count(user_conversations, u)
             /\ Len(user_conversations'[u]) >= Len(user_conversations[u])
             /\ SubSeq(user_conversations'[u], 1, Len(user_conversations[u]))
                   = user_conversations[u]]_vars

\* the window is full with five questions and five answers, the first
\* question is still its first turn, and a sixth question was refused
C37_Witness ==
    /\ Len(user_conversations[101]) = CONVERSATION_WINDOW
    /\ get_question_count(user_conversations, 101) = MAX_AI_QUESTIONS
    /\ user_conversations[101][1].role = "user"
    /\ last.handler = "handle_ai_conversation"
    /\ last.reply = "questions_finished"

AllShownBooked(keyboard) ==
    /\ Len(keyboard) = Len(AVAILABLE_TIMES)
    /\ \A i \in 1..Len(AVAILABLE_TIMES) :
          keyboard[i].callback_data = <<"booked", TheDate, AVAILABLE_TIMES[i]>>

\* C38: check_slot_available answers false whenever the store cannot be
\* asked, whatever the table holds; a render during which it could not be
\* asked for a slot shows that slot as booked, so a render during which it
\* could never be asked shows every slot as booked; and pressing any button
\* of such a render selects nothing: no session, buffer or table changes.
C38_FailsClosed ==
    [][/\ \A u \in Users : \A oks \in OkPatterns :
             (/\ last'.handler = "handle_date_selection"
              /\ handle_date_selection(u, <<"date", TheDate>>, oks))
             => /\ \A i \in 1..Len(AVAILABLE_TIMES) :
                      ~oks[i]
                      => /\ ~check_slot_available(bookings, TheDate,
                                                  AVAILABLE_TIMES[i], oks[i])
                         /\ last'.keyboard[i].callback_data
                               = <<"booked", TheDate, AVAILABLE_TIMES[i]>>
                /\ (\A i \in 1..Len(AVAILABLE_TIMES) : ~oks[i])
                      => AllShownBooked(last'.keyboard)
       /\ \A u \in Users : \A i \in 1..Len(AVAILABLE_TIMES) :
             (/\ last.handler = "handle_date_selection"
              /\ AllShownBooked(last.keyboard)
              /\ button_handler(u, last.keyboard[i].callback_data))
             => /\ user_states' = user_states
                /\ user_conversations' = user_conversations
                /\ bookings' = bookings
                /\ report_requests' = report_requests
                /\ ai_sessions' = ai_sessions]_vars

\* user 202 has rendered the slots of a date for which no booking is
\* committed, and every slot is shown as booked
C38_Witness ==
    /\ last.handler = "handle_date_selection"
    /\ last.user = 202
    /\ AllShownBooked(last.keyboard)
    /\ \A i \in 1..Len(AVAILABLE_TIMES) :
          NonCancelledAt(TheDate, AVAILABLE_TIMES[i]) = {}
====
